---- MODULE Spec2Model ----
(***************************************************************************)
(* k8s-haproxy: a controller that mirrors the endpoints of one Kubernetes  *)
(* Service into the server list of an HAProxy backend through the Data     *)
(* Plane API's transactions.                                               *)
(*                                                                         *)
(*   internal/controller/controller.go   Controller (Run, workers, queue)  *)
(*   pkg/haproxy/sync.go                 Syncer (mapper, SyncBackends)     *)
(*   pkg/haproxy/dataplane_client.go     DataPlaneClient (HTTP calls)      *)
(*                                                                         *)
(* The work queue is client-go's rate limiting queue; the Data Plane API   *)
(* is the remote side of every HTTP call.                                  *)
(***************************************************************************)
EXTENDS Integers, Sequences, FiniteSets, TLC

\* ------------------------------------------------------------------ bounds

\* Number of worker goroutines started by Run (config.Load defaults to 2).
WorkerCount == 2
\* Transactions the remote side hands out before it refuses to begin more.
MaxTx == 2
\* The exponent at which the model stops doubling the retry delay.
MaxBackoffExp == 1
\* Requests that go wrong (lost, rejected, answered badly) in one run.
MaxFaults == 1

Workers == 1..WorkerCount

\* ------------------------------------------------------- optional values

\* A Go pointer: nil, or a value.
Nil == [set |-> FALSE, val |-> ""]
Ptr(v) == [set |-> TRUE, val |-> v]
NilPort == [set |-> FALSE, val |-> 0]
NilBool == [set |-> FALSE, val |-> FALSE]

RECURSIVE Flatten(_)
Flatten(ss) == IF ss = <<>> THEN <<>> ELSE Head(ss) \o Flatten(Tail(ss))

Range(s) == {s[i] : i \in 1..Len(s)}

\* ------------------------------------------------------------ the mapper

\* resolveAddress without the check that the node's address is not empty.
resolveAddressAnyMapping(original, nodeName, nodeIPs) ==
    IF nodeName.set /\ nodeName.val \in DOMAIN nodeIPs
    THEN nodeIPs[nodeName.val]
    ELSE original

\* resolveAddress: the node's IP when the node is known and mapped to a
\* non-empty address, the original address otherwise.
resolveAddress(original, nodeName, nodeIPs) ==
    IF nodeName.set /\ nodeName.val \in DOMAIN nodeIPs /\ nodeIPs[nodeName.val] # ""
    THEN nodeIPs[nodeName.val]
    ELSE original

\* selectPort with the port found first and the override as the fallback.
selectPortFoundFirst(found, override) ==
    IF found.set THEN found.val
    ELSE IF override > 0 THEN override
    ELSE 0

\* selectPort: a positive override wins, then the port found, then 0.
selectPort(found, override) ==
    IF override > 0 THEN override
    ELSE IF found.set THEN found.val
    ELSE 0

\* fmt.Sprintf("%s-%d", host, p)
FormatName(host, p) == host \o "-" \o ToString(p)

\* One BackendServer as sync.go builds it.
BackendServer(host, p) ==
    [Name |-> FormatName(host, p), Address |-> host, Port |-> p, Weight |-> 1, Check |-> TRUE]

\* The slice mapper without its readiness check.
SliceEndpointServersAnyReadiness(ep, port, nodeIPs, overridePort) ==
    LET p == selectPort(port, overridePort)
    IN  [i \in 1..Len(ep.Addresses) |->
            BackendServer(resolveAddress(ep.Addresses[i], ep.NodeName, nodeIPs), p)]

\* The specs of one endpoint of a slice under one port.
SliceEndpointServers(ep, port, nodeIPs, overridePort) ==
    IF ep.Ready.set /\ ~ep.Ready.val
    THEN <<>>
    ELSE LET p == selectPort(port, overridePort)
         IN  [i \in 1..Len(ep.Addresses) |->
                 BackendServer(resolveAddress(ep.Addresses[i], ep.NodeName, nodeIPs), p)]

\* The specs of one port of a slice: nothing when the port has no number.
SlicePortServers(slice, port, nodeIPs, overridePort) ==
    IF ~port.set
    THEN <<>>
    ELSE Flatten([j \in 1..Len(slice.Endpoints) |->
                     SliceEndpointServers(slice.Endpoints[j], port, nodeIPs, overridePort)])

BuildBackendsFromEndpointSlices(slices, nodeIPs, overridePort) ==
    Flatten([s \in 1..Len(slices) |->
        Flatten([k \in 1..Len(slices[s].Ports) |->
            SlicePortServers(slices[s], slices[s].Ports[k], nodeIPs, overridePort)])])

\* The legacy mapper ranging over the addresses first and the ports inside.
SubsetServersByAddress(subset, nodeIPs, overridePort) ==
    Flatten([i \in 1..Len(subset.Addresses) |->
        [k \in 1..Len(subset.Ports) |->
            BackendServer(resolveAddress(subset.Addresses[i].IP,
                                         subset.Addresses[i].NodeName, nodeIPs),
                          selectPort(Ptr(subset.Ports[k]), overridePort))]])

\* The specs of one subset of a legacy Endpoints object.
SubsetServers(subset, nodeIPs, overridePort) ==
    Flatten([k \in 1..Len(subset.Ports) |->
        LET p == selectPort(Ptr(subset.Ports[k]), overridePort)
        IN  [i \in 1..Len(subset.Addresses) |->
                BackendServer(resolveAddress(subset.Addresses[i].IP,
                                             subset.Addresses[i].NodeName, nodeIPs), p)]])

\* The legacy mapper reading only the first subset of each object.
BuildBackendsFromFirstSubsets(endpoints, nodeIPs, overridePort) ==
    Flatten([e \in 1..Len(endpoints) |->
        IF endpoints[e].Subsets = <<>> THEN <<>>
        ELSE SubsetServers(endpoints[e].Subsets[1], nodeIPs, overridePort)])

BuildBackendsFromEndpoints(endpoints, nodeIPs, overridePort) ==
    Flatten([e \in 1..Len(endpoints) |->
        Flatten([s \in 1..Len(endpoints[e].Subsets) |->
            SubsetServers(endpoints[e].Subsets[s], nodeIPs, overridePort)])])

\* Sync with the two lists merged instead of the fallback.
DesiredBackendsMerged(slices, endpoints, nodeIPs, overridePort) ==
    BuildBackendsFromEndpointSlices(slices, nodeIPs, overridePort)
        \o BuildBackendsFromEndpoints(endpoints, nodeIPs, overridePort)

\* Syncer.Sync's choice of the desired list: the slices' list, and the
\* legacy endpoints' list only when the slices give nothing.
DesiredBackends(slices, endpoints, nodeIPs, overridePort) ==
    LET backends == BuildBackendsFromEndpointSlices(slices, nodeIPs, overridePort)
    IN  IF Len(backends) = 0
        THEN BuildBackendsFromEndpoints(endpoints, nodeIPs, overridePort)
        ELSE backends

\* Syncer.Sync's mapping: the override is the syncer's port.
Sync(slices, endpoints, nodeIPs, s) == DesiredBackends(slices, endpoints, nodeIPs, s.port)

\* HealthCheckConfig{IntervalSeconds: 5, RiseCount: 2, FallCount: 2}
HealthChecks == [IntervalSeconds |-> 5, RiseCount |-> 2, FallCount |-> 2]

\* ------------------------------------------------- the mirrored membership

Endpoint(addrs, ready, node) == [Addresses |-> addrs, Ready |-> ready, NodeName |-> node]
Slice(ports, eps) == [Ports |-> ports, Endpoints |-> eps]

\* The node address table and the port override the syncer is built with.
NodeIPs == [n \in {"node1"} |-> "192.168.0.5"]
OverridePort == 0

\* NewSyncer(client): no port override; the controller's node table.
NewSyncer == [port |-> OverridePort, nodeIPs |-> NodeIPs]

\* NewSyncerWithPort(client, port), with the node table Sync is called with.
NewSyncerWithPort(port, nodeIPs) == [port |-> port, nodeIPs |-> nodeIPs]

\* Contents of the mirror: two members, and none.
MirrorTwo ==
    [slices |-> << Slice(<<Ptr(80)>>,
                         << Endpoint(<<"10.0.0.1">>, NilBool, Nil),
                            Endpoint(<<"10.0.0.2">>, Ptr(TRUE), Nil) >>) >>,
     endpoints |-> <<>>]
MirrorEmpty == [slices |-> <<>>, endpoints |-> <<>>]

MirrorContents == {MirrorEmpty, MirrorTwo}

\* --------------------------------------------------------- the work queue

\* const queueKey = "ingress-backends"
queueKey == "ingress-backends"

\* What a notification hands to its handler: AddFunc gets the object of the
\* informer that fired, UpdateFunc and DeleteFunc pass nil on.
EndpointsObj == "Endpoints"
EndpointSliceObj == "EndpointSlice"
NilObj == "nil"
Keys == {queueKey, EndpointsObj, EndpointSliceObj, NilObj}

\* The rate limiter's base delay, in units of its 5 ms.
BaseDelay == 1

RECURSIVE Pow2(_)
Pow2(n) == IF n = 0 THEN 1 ELSE 2 * Pow2(n - 1)

Min(a, b) == IF a < b THEN a ELSE b

\* workqueue.NewRateLimitingQueue(workqueue.DefaultControllerRateLimiter())
NewRateLimitingQueue ==
    [queue |-> <<>>, dirty |-> {}, processing |-> {}, shuttingDown |-> FALSE,
     waiting |-> {}, failures |-> [k \in Keys |-> 0]]

\* An Add that queues the item although it is being processed.
QueueAddWhileProcessing(q, item) ==
    IF q.shuttingDown \/ item \in q.dirty THEN q
    ELSE [q EXCEPT !.dirty = @ \cup {item}, !.queue = Append(@, item)]

\* queue.Add: dropped after shutdown and while the item is already dirty;
\* an item being processed is marked dirty and queued again by Done.
QueueAdd(q, item) ==
    IF q.shuttingDown \/ item \in q.dirty THEN q
    ELSE IF item \in q.processing THEN [q EXCEPT !.dirty = @ \cup {item}]
    ELSE [q EXCEPT !.dirty = @ \cup {item}, !.queue = Append(@, item)]

\* queue.Get on a non-empty queue.
QueueGet(q) ==
    [q EXCEPT !.queue = Tail(@),
              !.processing = @ \cup {Head(q.queue)},
              !.dirty = @ \ {Head(q.queue)}]

\* queue.Done: the item leaves processing and, if it was added meanwhile,
\* goes back to the queue.
QueueDone(q, item) ==
    IF item \in q.dirty
    THEN [q EXCEPT !.processing = @ \ {item}, !.queue = Append(@, item)]
    ELSE [q EXCEPT !.processing = @ \ {item}]

\* The exponential limiter's delay for the item's next retry.
RateLimiterWhen(q, item) == BaseDelay * Pow2(Min(q.failures[item], MaxBackoffExp))

\* The waiting entries after one for the item is inserted. An entry is
\* due once its delay has elapsed; an entry already waiting for the item
\* keeps the sooner of the two times, so one that is due stays due.
InsertWaiting(waiting, item) ==
    IF \E e \in waiting : e.key = item
    THEN waiting
    ELSE waiting \cup {[key |-> item, due |-> FALSE]}

\* queue.AddAfter: at once for a delay that is not positive, by the
\* delaying loop otherwise; nothing after shutdown.
QueueAddAfter(q, item, delay) ==
    IF q.shuttingDown THEN q
    ELSE IF delay <= 0 THEN QueueAdd(q, item)
    ELSE [q EXCEPT !.waiting = InsertWaiting(@, item)]

\* queue.AddRateLimited: AddAfter(item, rateLimiter.When(item)), and the
\* limiter counts one more failure of the item.
QueueAddRateLimited(q, item) ==
    QueueAddAfter([q EXCEPT !.failures[item] = Min(@ + 1, MaxBackoffExp)],
                  item, RateLimiterWhen(q, item))

\* A Forget that leaves the limiter's count as it is.
QueueForgetKeepsCount(q, item) == q

\* queue.Forget: the item's failure count is dropped.
QueueForget(q, item) == [q EXCEPT !.failures[item] = 0]

\* queue.ShutDown: nothing is added any more, and the delaying loop stops,
\* so what still waits for its delay is dropped.
QueueShutDown(q) == [q EXCEPT !.shuttingDown = TRUE, !.waiting = {}]

\* ------------------------------------------------- the Data Plane API side

\* resp.ID == "": the identifier a begin answer without an id decodes to.
EmptyId == 0

\* The backend's configuration: its servers and its check timeout.
EmptyConfig == [servers |-> {}, checkTimeout |-> 0]

\* The remote side at start: the backend exists and has no server, the
\* configuration is at version 1 and no transaction was ever begun. A
\* transaction is kept while it is open; committed or aborted, it is gone.
\* `extra` holds the answers this control plane, or a proxy before it,
\* gives besides the regular ones.
InitRemote == [config |-> EmptyConfig, version |-> 1, begun |-> 0, open |-> {}, extra |-> {}]

\* HTTP answers: a transport failure carries no status. `body` is the
\* length of the answer's body, in KiB; `version` is the number the body
\* holds, bare (form "number") or as {"version": N} (form "object"), and
\* 0 when it holds none.
TransportError ==
    [transport |-> TRUE, status |-> 0, id |-> EmptyId, version |-> 0, form |-> "number", body |-> 0]
Answer(code) ==
    [transport |-> FALSE, status |-> code, id |-> EmptyId, version |-> 0, form |-> "number", body |-> 0]
Outcome(resp, r, fault) == [resp |-> resp, remote |-> r, fault |-> fault]

TxOpen(r, tx) == \E t \in r.open : t.id = tx
OpenTx(r, tx) == CHOOSE t \in r.open : t.id = tx
HasServer(cfg, name) == \E s \in cfg.servers : s.name = name
WithServer(cfg, payload) ==
    [cfg EXCEPT !.servers = {s \in @ : s.name # payload.name} \cup {payload}]
\* The remote state with open transaction tx's configuration replaced.
WithTxConfig(r, tx, cfg) ==
    [r EXCEPT !.open = {IF t.id = tx THEN [t EXCEPT !.config = cfg] ELSE t : t \in @}]
Closed(r, tx) == [r EXCEPT !.open = {t \in @ : t.id # tx}]
Committed(r, tx) ==
    [Closed(r, tx) EXCEPT !.config = OpenTx(r, tx).config, !.version = @ + 1]

\* The remote side's regular handling of one request: its answer and its
\* next state.
RemoteHandle(r, req) ==
    CASE req.op = "GET version" ->
           Outcome([Answer(200) EXCEPT !.version = r.version], r, FALSE)
      [] req.op = "POST transactions" ->
           IF req.version # r.version THEN Outcome(Answer(409), r, FALSE)
           ELSE IF r.begun >= MaxTx THEN Outcome(Answer(429), r, FALSE)
           ELSE Outcome([Answer(201) EXCEPT !.id = r.begun + 1],
                        [r EXCEPT !.begun = @ + 1,
                                  !.open = @ \cup {[id |-> r.begun + 1, config |-> r.config]}],
                        FALSE)
      [] req.op \in {"PUT server", "POST server"} ->
           IF ~TxOpen(r, req.tx) THEN Outcome(Answer(400), r, FALSE)
           ELSE IF req.op = "PUT server" /\ ~HasServer(OpenTx(r, req.tx).config, req.body.name)
           THEN Outcome(Answer(404), r, FALSE)
           ELSE IF req.op = "POST server" /\ HasServer(OpenTx(r, req.tx).config, req.body.name)
           THEN Outcome(Answer(409), r, FALSE)
           ELSE Outcome(Answer(IF req.op = "PUT server" THEN 200 ELSE 201),
                        WithTxConfig(r, req.tx, WithServer(OpenTx(r, req.tx).config, req.body)),
                        FALSE)
      [] req.op = "PUT backend" ->
           IF ~TxOpen(r, req.tx) THEN Outcome(Answer(400), r, FALSE)
           ELSE Outcome(Answer(200),
                        WithTxConfig(r, req.tx, [OpenTx(r, req.tx).config EXCEPT
                                                    !.checkTimeout = req.body.check_timeout]),
                        FALSE)
      [] req.op = "PUT transaction" ->
           IF ~TxOpen(r, req.tx) THEN Outcome(Answer(404), r, FALSE)
           ELSE Outcome(Answer(202), Committed(r, req.tx), FALSE)
      [] req.op = "DELETE transaction" ->
           IF ~TxOpen(r, req.tx) THEN Outcome(Answer(404), r, FALSE)
           ELSE Outcome(Answer(204), Closed(r, req.tx), FALSE)

\* What can go wrong with a request whatever the remote state: no answer
\* at all (the request lost, or handled and its answer lost), a rejection,
\* or a 2xx answer without the payload asked for.
RemoteFaults(r, req) ==
    {Outcome(TransportError, r, TRUE), Outcome(Answer(500), r, TRUE)}
    \cup (IF req.op \in {"PUT transaction", "DELETE transaction"}
          THEN {Outcome(TransportError, RemoteHandle(r, req).remote, TRUE)} ELSE {})
    \cup (IF req.op \in {"GET version", "POST transactions"}
          THEN {Outcome(Answer(200), r, TRUE)} ELSE {})
    \cup {Outcome(a, r, TRUE) : a \in r.extra}

\* ------------------------------------------------------------- the client

NoBody == [name |-> <<"", 0>>]
Request(op, tx, version, body) == [op |-> op, tx |-> tx, version |-> version, body |-> body]

NoError == [stage |-> "", op |-> "", kind |-> "", code |-> 0, body |-> 0]
IsError(e) == e.kind # ""

\* io.LimitReader(resp.Body, 4<<10): at most 4 KiB of the body are read.
BodyLimit == 4
LimitReader(body, limit) == Min(body, limit)

\* doRequest taking a status below 400 for success.
doRequestAccepts3xx(resp) ==
    IF resp.transport THEN [NoError EXCEPT !.kind = "transport"]
    ELSE IF resp.status >= 400
    THEN [NoError EXCEPT !.kind = "status", !.code = resp.status,
                         !.body = LimitReader(resp.body, BodyLimit)]
    ELSE NoError

\* doRequest's error for an answer: the transport's failure, an
\* apiStatusError with the status and the start of the body for a status
\* of 300 and above, nil otherwise.
doRequest(resp) ==
    IF resp.transport THEN [NoError EXCEPT !.kind = "transport"]
    ELSE IF resp.status >= 300
    THEN [NoError EXCEPT !.kind = "status", !.code = resp.status,
                         !.body = LimitReader(resp.body, BodyLimit)]
    ELSE NoError

\* fmt.Errorf("<label>: %w", err)
Wrap(field, label, e) == IF field = "stage" THEN [e EXCEPT !.stage = label] ELSE [e EXCEPT !.op = label]

\* checkState
checkState(enabled) == IF enabled THEN "enabled" ELSE "disabled"

\* serverPayload of one BackendServer.
serverPayload(b) ==
    [name |-> b.Name, address |-> b.Address, port |-> b.Port, weight |-> b.Weight,
     check |-> checkState(b.Check)]

\* The body with the interval left in seconds.
healthPayloadInSeconds(config) == [name |-> <<"backend", 0>>, check_timeout |-> config.IntervalSeconds]

\* The body UpdateHealthChecksInTransaction sends.
healthPayload(config) == [name |-> <<"backend", 0>>, check_timeout |-> config.IntervalSeconds * 1000]

\* ------------------------------------------------------------------ state

VARIABLES
    mirror,     \* the informers' cache: what the listers return
    syncer,     \* the Syncer's port override, and the node table Sync is called with
    stale,      \* a notification was delivered since the cache was last listed,
                \* and the controller has not been told to stop
    ctxDone,    \* the root context is cancelled
    runPc,      \* where main and Controller.Run stand
    wq,         \* the rate limiting work queue
    retry,      \* the retry the last failed pass left waiting, and who else added the key
    remote,     \* the Data Plane API's state
    faults,     \* the requests that went wrong so far
    wpc,        \* per worker: where processNextWorkItem stands
    item,       \* per worker: the item Get returned
    desired,    \* per worker: the backends Sync computed
    txID,       \* per worker: the transaction SyncBackends began
    idx,        \* per worker: the server UpdateBackendsInTransaction is at
    err,        \* per worker: the error of the pass so far
    calls       \* per worker: the requests of the pass, with their answers

vars == <<mirror, syncer, stale, ctxDone, runPc, wq, retry, remote, faults,
          wpc, item, desired, txID, idx, err, calls>>
passVars == <<item, desired, txID, idx, err, calls>>

NoRetry == [active |-> FALSE, otherAdd |-> FALSE]

Init ==
    /\ mirror = MirrorEmpty
    /\ syncer = NewSyncer
    /\ stale = FALSE
    /\ ctxDone = FALSE
    /\ runPc = "init"
    /\ wq = NewRateLimitingQueue
    /\ retry = NoRetry
    /\ remote = InitRemote
    /\ faults = 0
    /\ wpc = [w \in Workers |-> "off"]
    /\ item = [w \in Workers |-> ""]
    /\ desired = [w \in Workers |-> <<>>]
    /\ txID = [w \in Workers |-> EmptyId]
    /\ idx = [w \in Workers |-> 0]
    /\ err = [w \in Workers |-> NoError]
    /\ calls = [w \in Workers |-> <<>>]

\* ------------------------------------------------ the controller: Run, events

\* An enqueue keyed by the object the handler was given.
enqueueObject(q, obj) == QueueAdd(q, obj)

\* Controller.enqueue: whatever the object, the constant key is added.
enqueue(q, obj) == QueueAdd(q, queueKey)

\* The handlers NewController registers on both informers.
HandlerArg(event, obj) == IF event = "add" THEN obj ELSE NilObj

\* An add of the key by anyone but the pending retry's own timer.
NoteOtherAdd(r) == IF r.active THEN [r EXCEPT !.otherAdd = TRUE] ELSE r

\* Run starting its workers before the wait for the caches.
RunStartsWorkersFirst ==
    /\ runPc = "init"
    /\ runPc' = "waitSync"
    /\ wpc' = [w \in Workers |-> "get"]
    /\ UNCHANGED <<syncer, mirror, stale, ctxDone, wq, retry, remote, faults, passVars>>

\* Run, line 61: the informers are started.
RunStartInformers ==
    /\ runPc = "init"
    /\ runPc' = "waitSync"
    /\ UNCHANGED <<syncer, mirror, stale, ctxDone, wq, retry, remote, faults, wpc, passVars>>

\* Run without the enqueue of line 67.
RunWaitForSyncWithoutSeed(ok) ==
    /\ runPc = "waitSync"
    /\ ok \/ ctxDone
    /\ IF ok
       THEN /\ wpc' = [w \in Workers |-> "get"]
            /\ runPc' = "running"
            /\ UNCHANGED <<wq, retry>>
       ELSE /\ wq' = QueueShutDown(wq)
            /\ retry' = NoRetry
            /\ runPc' = "failed"
            /\ UNCHANGED wpc
    /\ UNCHANGED <<syncer, mirror, stale, ctxDone, remote, faults, passVars>>

\* Run, lines 62-71: the wait for the caches ends. On success the key is
\* seeded and the workers are started; on failure (the context was
\* cancelled first) Run returns an error and its deferred ShutDown runs.
RunWaitForSync(ok) ==
    /\ runPc = "waitSync"
    /\ ok \/ ctxDone
    /\ IF ok
       THEN /\ wq' = enqueue(wq, NilObj)
            /\ retry' = NoteOtherAdd(retry)
            /\ wpc' = [w \in Workers |-> "get"]
            /\ runPc' = "running"
       ELSE /\ wq' = QueueShutDown(wq)
            /\ retry' = NoRetry
            /\ runPc' = "failed"
            /\ UNCHANGED wpc
    /\ UNCHANGED <<syncer, mirror, stale, ctxDone, remote, faults, passVars>>

\* Run, lines 73-74 and the deferred ShutDown of line 59.
RunCtxDone ==
    /\ runPc = "running"
    /\ ctxDone
    /\ wq' = QueueShutDown(wq)
    /\ retry' = NoRetry
    /\ runPc' = "returned"
    /\ UNCHANGED <<syncer, mirror, stale, ctxDone, remote, faults, wpc, passVars>>

\* main after Run has returned: log.Fatalf on Run's error, the return from
\* main otherwise. Either way the process ends, and with it every
\* goroutine, wherever it stands: a worker that had not left its loop is
\* killed, and the memory of the process is gone.
MainReturns ==
    /\ runPc \in {"returned", "failed"}
    /\ runPc' = "exited"
    /\ wpc' = [w \in Workers |-> IF wpc[w] \in {"off", "exited"} THEN wpc[w] ELSE "killed"]
    /\ mirror' = MirrorEmpty
    /\ stale' = FALSE
    /\ item' = [w \in Workers |-> ""]
    /\ desired' = [w \in Workers |-> <<>>]
    /\ txID' = [w \in Workers |-> EmptyId]
    /\ idx' = [w \in Workers |-> 0]
    /\ err' = [w \in Workers |-> NoError]
    /\ calls' = [w \in Workers |-> <<>>]
    /\ UNCHANGED <<syncer, ctxDone, wq, retry, remote, faults>>

\* SIGINT or SIGTERM cancels the root context.
Cancel ==
    /\ ~ctxDone
    /\ ctxDone' = TRUE
    /\ stale' = FALSE
    /\ UNCHANGED <<syncer, mirror, runPc, wq, retry, remote, faults, wpc, passVars>>

\* An informer delivers an add, update or delete: its cache holds the new
\* contents and the registered handler enqueues. The informers run from
\* Start until the context they were started with is cancelled.
Notify(event, obj, contents) ==
    /\ runPc # "init"
    /\ ~ctxDone
    /\ mirror' = contents
    /\ stale' = TRUE
    /\ wq' = enqueue(wq, HandlerArg(event, obj))
    /\ retry' = NoteOtherAdd(retry)
    /\ UNCHANGED <<syncer, ctxDone, runPc, remote, faults, wpc, passVars>>

\* ------------------------------------------------------- the queue's clock

\* The delay of a waiting entry elapses.
Elapse(e) ==
    /\ e \in wq.waiting
    /\ ~e.due
    /\ wq' = [wq EXCEPT !.waiting = (@ \ {e}) \cup {[e EXCEPT !.due = TRUE]}]
    /\ UNCHANGED <<syncer, mirror, stale, ctxDone, runPc, retry, remote, faults, wpc, passVars>>

\* The delaying queue's loop adds an item whose time has come.
DelayedAdd(e) ==
    /\ e \in wq.waiting
    /\ e.due
    /\ wq' = QueueAdd([wq EXCEPT !.waiting = @ \ {e}], e.key)
    /\ retry' = IF e.key = queueKey THEN NoRetry ELSE retry
    /\ UNCHANGED <<syncer, mirror, stale, ctxDone, runPc, remote, faults, wpc, passVars>>

\* ----------------------------------------------------- the sync engine

\* An HTTP call: under a cancelled context the request fails without
\* reaching the remote side.
Call(req) ==
    IF ctxDone THEN {Outcome(TransportError, remote, FALSE)}
    ELSE {RemoteHandle(remote, req)}
         \cup (IF faults < MaxFaults THEN RemoteFaults(remote, req) ELSE {})

\* The call's effect on the remote side and on the count of faults.
Remote(out) ==
    /\ remote' = out.remote
    /\ faults' = IF out.fault THEN faults + 1 ELSE faults

\* The pass's record of a client request: what was asked, whether it was
\* handed to the HTTP client, and the answer.
Logged(w, req, sent, resp) ==
    [calls EXCEPT ![w] = Append(@, [op |-> req.op, tx |-> req.tx, version |-> req.version,
                                    body |-> req.body, sent |-> sent, resp |-> resp])]

\* SyncBackends committing although the health checks update failed.
SyncBackendsCommitsAfterFailedHealth(stage, e) ==
    CASE stage = "begin"    -> IF IsError(e) THEN "result" ELSE "backends"
      [] stage = "backends" -> IF IsError(e) THEN "abort" ELSE "health"
      [] stage = "health"   -> "commit"
      [] stage = "commit"   -> IF IsError(e) THEN "abort" ELSE "result"
      [] stage = "abort"    -> "result"

\* SyncBackends aborting on every return, its own success included.
SyncBackendsAlwaysAborts(stage, e) ==
    CASE stage = "begin"    -> IF IsError(e) THEN "result" ELSE "backends"
      [] stage = "backends" -> IF IsError(e) THEN "abort" ELSE "health"
      [] stage = "health"   -> IF IsError(e) THEN "abort" ELSE "commit"
      [] stage = "commit"   -> "abort"
      [] stage = "abort"    -> "result"

\* SyncBackends registering the deferred abort before begin's error check.
SyncBackendsAbortsFailedBegin(stage, e) ==
    CASE stage = "begin"    -> IF IsError(e) THEN "abort" ELSE "backends"
      [] stage = "backends" -> IF IsError(e) THEN "abort" ELSE "health"
      [] stage = "health"   -> IF IsError(e) THEN "abort" ELSE "commit"
      [] stage = "commit"   -> IF IsError(e) THEN "abort" ELSE "result"
      [] stage = "abort"    -> "result"

\* SyncBackends going on to the backends whatever begin returned.
SyncBackendsIgnoresFailedBegin(stage, e) ==
    CASE stage = "begin"    -> "backends"
      [] stage = "backends" -> IF IsError(e) THEN "abort" ELSE "health"
      [] stage = "health"   -> IF IsError(e) THEN "abort" ELSE "commit"
      [] stage = "commit"   -> IF IsError(e) THEN "abort" ELSE "result"
      [] stage = "abort"    -> "result"

\* SyncBackends' control flow: the stage that follows `stage` ending with
\* error e. A failed begin returns at once; any later failure goes
\* through the deferred abort; "result" is the return to the controller.
SyncBackendsNext(stage, e) ==
    CASE stage = "begin"    -> IF IsError(e) THEN "result" ELSE "backends"
      [] stage = "backends" -> IF IsError(e) THEN "abort" ELSE "health"
      [] stage = "health"   -> IF IsError(e) THEN "abort" ELSE "commit"
      [] stage = "commit"   -> IF IsError(e) THEN "abort" ELSE "result"
      [] stage = "abort"    -> "result"

\* The labels SyncBackends wraps its errors with.
StageLabel(stage) ==
    CASE stage = "begin"    -> "beginning transaction"
      [] stage = "backends" -> "updating backends"
      [] stage = "health"   -> "updating health checks"
      [] stage = "commit"   -> "committing transaction"

\* UpdateBackendsInTransaction going on with the next server after a failure.
UpdateBackendsKeepsGoing(op, e, i, n) ==
    IF op = "PUT server" /\ e.kind = "status" /\ e.code = 404 THEN "post"
    ELSE IF i < n THEN "put"
    ELSE "return"

\* UpdateBackendsInTransaction creating the server on any rejected PUT.
UpdateBackendsCreatesOnAnyStatus(op, e, i, n) ==
    IF op = "PUT server" /\ e.kind = "status" THEN "post"
    ELSE IF IsError(e) THEN "return"
    ELSE IF i < n THEN "put"
    ELSE "return"

\* UpdateBackendsInTransaction's loop: what follows the answer to the PUT
\* or POST of server i of n. "post" creates the server the PUT did not
\* find, "put" goes on with the next server, "return" ends the call.
UpdateBackendsNext(op, e, i, n) ==
    IF op = "PUT server" /\ e.kind = "status" /\ e.code = 404 THEN "post"
    ELSE IF IsError(e) THEN "return"
    ELSE IF i < n THEN "put"
    ELSE "return"

\* The worker's position for SyncBackends' stage.
StagePc(stage, n) ==
    CASE stage = "backends" -> IF n = 0 THEN "health" ELSE "put"
      [] stage = "health"   -> "health"
      [] stage = "commit"   -> "commit"
      [] stage = "abort"    -> "abort"
      [] stage = "result"   -> "result"

\* SyncBackends returning the abort's error when the abort fails.
LeaveStageWithAbortError(w, stage, e) ==
    LET next == SyncBackendsNext(stage, e)
        to == IF next = "backends" /\ Len(desired[w]) = 0
              THEN SyncBackendsNext("backends", NoError) ELSE next
    IN  /\ wpc' = [wpc EXCEPT ![w] = StagePc(to, Len(desired[w]))]
        /\ err' = [err EXCEPT ![w] =
                     IF ~IsError(e) THEN @
                     ELSE Wrap("stage", IF stage = "abort" THEN "aborting transaction"
                                        ELSE StageLabel(stage), e)]

\* The worker leaves `stage` with error e (NoError on success).
LeaveStage(w, stage, e) ==
    LET next == SyncBackendsNext(stage, e)
        to == IF next = "backends" /\ Len(desired[w]) = 0
              THEN SyncBackendsNext("backends", NoError) ELSE next
    IN  /\ wpc' = [wpc EXCEPT ![w] = StagePc(to, Len(desired[w]))]
        /\ err' = [err EXCEPT ![w] =
                     IF stage = "abort" \/ ~IsError(e) THEN @ ELSE Wrap("stage", StageLabel(stage), e)]

\* decodeVersion accepting the bare number only.
decodeVersionBareOnly(resp) ==
    IF resp.form = "number" /\ resp.version > 0 THEN NoError
    ELSE [NoError EXCEPT !.kind = "version"]

\* decodeVersion and fetchConfigurationVersion's check: the body is tried
\* as a bare number, then as an object with a version; a version that is
\* missing or not positive in both is an error.
decodeVersion(resp) ==
    IF resp.form = "number" /\ resp.version > 0 THEN NoError
    ELSE IF resp.form = "object" /\ resp.version > 0 THEN NoError
    ELSE [NoError EXCEPT !.kind = "version"]

\* fetchConfigurationVersion's error for an answer: its own request, with
\* an "unexpected status" error that names the status and the start of
\* the body for a status of 300 and above, then the version's decoding.
fetchConfigurationVersion(resp) ==
    IF resp.transport THEN [NoError EXCEPT !.kind = "transport"]
    ELSE IF resp.status >= 300
    THEN [NoError EXCEPT !.kind = "unexpected status", !.code = resp.status,
                         !.body = LimitReader(resp.body, BodyLimit)]
    ELSE decodeVersion(resp)

\* processNextWorkItem, line 87: Get hands out the head of the queue.
WorkerGet(w) ==
    /\ wpc[w] = "get"
    /\ Len(wq.queue) > 0
    /\ item' = [item EXCEPT ![w] = Head(wq.queue)]
    /\ wq' = QueueGet(wq)
    /\ wpc' = [wpc EXCEPT ![w] = "sync"]
    /\ UNCHANGED <<syncer, mirror, stale, ctxDone, runPc, retry, remote, faults, desired, txID, idx, err, calls>>

\* processNextWorkItem, lines 88-90: the queue is shut down and drained.
WorkerExit(w) ==
    /\ wpc[w] = "get"
    /\ Len(wq.queue) = 0
    /\ wq.shuttingDown
    /\ wpc' = [wpc EXCEPT ![w] = "exited"]
    /\ UNCHANGED <<syncer, mirror, stale, ctxDone, runPc, wq, retry, remote, faults, passVars>>

\* Controller.sync with a mapper that emits its specs in either order, as
\* one ranging over a Go map would.
WorkerListAnyOrder(w, listed) ==
    /\ wpc[w] = "sync"
    /\ listed
    /\ \E list \in {Sync(mirror.slices, mirror.endpoints, syncer.nodeIPs, syncer)} :
           desired' \in {[desired EXCEPT ![w] = list],
                         [desired EXCEPT ![w] = [i \in 1..Len(list) |-> list[Len(list) + 1 - i]]]}
    /\ wpc' = [wpc EXCEPT ![w] = "fetchVersion"]
    /\ UNCHANGED <<syncer, mirror, stale, faults, err, ctxDone, runPc, wq, retry, remote, item, txID, idx, calls>>

\* Controller.sync, lines 105-122, and Syncer.Sync: the mirror is listed
\* and mapped to the desired backends; a lister's error ends the pass.
WorkerList(w, listed) ==
    /\ wpc[w] = "sync"
    /\ listed \/ faults < MaxFaults
    /\ faults' = IF listed THEN faults ELSE faults + 1
    /\ stale' = (IF listed THEN FALSE ELSE stale)
    /\ IF listed
       THEN /\ desired' = [desired EXCEPT ![w] =
                  Sync(mirror.slices, mirror.endpoints, syncer.nodeIPs, syncer)]
            /\ wpc' = [wpc EXCEPT ![w] = "fetchVersion"]
            /\ err' = err
       ELSE /\ err' = [err EXCEPT ![w] = Wrap("stage", "listing", [NoError EXCEPT !.kind = "lister"])]
            /\ wpc' = [wpc EXCEPT ![w] = "result"]
            /\ desired' = desired
    /\ UNCHANGED <<syncer, mirror, ctxDone, runPc, wq, retry, remote, item, txID, idx, calls>>

\* BeginTransaction, lines 54-57: the configuration version is fetched.
FetchVersion(w) ==
    /\ wpc[w] = "fetchVersion"
    /\ \E out \in Call(Request("GET version", EmptyId, 0, NoBody)) :
          LET req == Request("GET version", EmptyId, 0, NoBody)
              e == fetchConfigurationVersion(out.resp)
          IN  /\ Remote(out)
              /\ calls' = Logged(w, req, TRUE, out.resp)
              /\ IF IsError(e)
                 THEN /\ LeaveStage(w, "begin", Wrap("op", "fetch version", e))
                      /\ idx' = idx
                 ELSE /\ wpc' = [wpc EXCEPT ![w] = "beginPost"]
                      /\ idx' = [idx EXCEPT ![w] = out.resp.version]
                      /\ err' = err
    /\ UNCHANGED <<syncer, mirror, stale, ctxDone, runPc, wq, retry, item, desired, txID>>

\* BeginTransaction, lines 59-69: the transaction is created.
BeginPost(w) ==
    /\ wpc[w] = "beginPost"
    /\ LET req == Request("POST transactions", EmptyId, idx[w], NoBody)
       IN  \E out \in Call(req) :
              LET e0 == doRequest(out.resp)
                  e == IF IsError(e0) THEN e0
                       ELSE IF out.resp.id = EmptyId THEN [NoError EXCEPT !.kind = "empty id"]
                       ELSE NoError
              IN  /\ Remote(out)
                  /\ calls' = Logged(w, req, TRUE, out.resp)
                  /\ txID' = [txID EXCEPT ![w] = IF IsError(e) THEN EmptyId ELSE out.resp.id]
                  /\ idx' = [idx EXCEPT ![w] = 1]
                  /\ LeaveStage(w, "begin", Wrap("op", "begin transaction", e))
    /\ UNCHANGED <<syncer, mirror, stale, ctxDone, runPc, wq, retry, item, desired>>

\* UpdateBackendsInTransaction, lines 92-115: the PUT (wpc = "put") or the
\* POST (wpc = "post") of server idx.
UpdateServer(w) ==
    /\ wpc[w] \in {"put", "post"}
    /\ LET op == IF wpc[w] = "put" THEN "PUT server" ELSE "POST server"
           req == Request(op, txID[w], 0, serverPayload(desired[w][idx[w]]))
       IN  \E out \in Call(req) :
              LET e == doRequest(out.resp)
                  next == UpdateBackendsNext(op, e, idx[w], Len(desired[w]))
              IN  /\ Remote(out)
                  /\ calls' = Logged(w, req, TRUE, out.resp)
                  /\ IF next = "return"
                     THEN /\ LeaveStage(w, "backends",
                                 Wrap("op", IF op = "PUT server" THEN "update server"
                                            ELSE "create server", e))
                          /\ idx' = idx
                     ELSE /\ wpc' = [wpc EXCEPT ![w] = next]
                          /\ idx' = [idx EXCEPT ![w] = IF next = "put" THEN @ + 1 ELSE @]
                          /\ err' = err
    /\ UNCHANGED <<syncer, mirror, stale, ctxDone, runPc, wq, retry, item, desired, txID>>

\* The health checks update sent under the identifier of the first
\* transaction ever begun, as a syncer keeping its identifier would.
UpdateHealthChecksWithFirstId(w) ==
    /\ wpc[w] = "health"
    /\ LET req == Request("PUT backend", 1, 0, healthPayload(HealthChecks))
       IN  \E out \in Call(req) :
              /\ Remote(out)
              /\ calls' = Logged(w, req, TRUE, out.resp)
              /\ LeaveStage(w, "health", doRequest(out.resp))
    /\ UNCHANGED <<syncer, mirror, stale, ctxDone, runPc, wq, retry, item, desired, txID, idx>>

\* UpdateHealthChecksInTransaction: one PUT of the backend.
UpdateHealthChecks(w) ==
    /\ wpc[w] = "health"
    /\ LET req == Request("PUT backend", txID[w], 0, healthPayload(HealthChecks))
       IN  \E out \in Call(req) :
              /\ Remote(out)
              /\ calls' = Logged(w, req, TRUE, out.resp)
              /\ LeaveStage(w, "health", doRequest(out.resp))
    /\ UNCHANGED <<syncer, mirror, stale, ctxDone, runPc, wq, retry, item, desired, txID, idx>>

\* CommitTransaction (op = "PUT transaction") and AbortTransaction (op =
\* "DELETE transaction"): an empty identifier is refused before any request.
EndTransaction(w, stage, op) ==
    /\ wpc[w] = stage
    /\ IF txID[w] = EmptyId
       THEN /\ LeaveStage(w, stage, [NoError EXCEPT !.kind = "empty id"])
            /\ calls' = Logged(w, Request(op, txID[w], 0, NoBody), FALSE, TransportError)
            /\ UNCHANGED <<remote, faults>>
       ELSE LET req == Request(op, txID[w], 0, NoBody)
            IN  \E out \in Call(req) :
                   /\ Remote(out)
                   /\ calls' = Logged(w, req, TRUE, out.resp)
                   /\ LeaveStage(w, stage, doRequest(out.resp))
    /\ UNCHANGED <<syncer, mirror, stale, ctxDone, runPc, wq, retry, item, desired, txID, idx>>

CommitTransaction(w) == EndTransaction(w, "commit", "PUT transaction")
AbortTransaction(w) == EndTransaction(w, "abort", "DELETE transaction")

\* processNextWorkItem giving up on the key after MaxBackoffExp failures.
OnSyncResultGivesUp(q, it, e) ==
    IF IsError(e) /\ q.failures[queueKey] < MaxBackoffExp THEN QueueAddRateLimited(q, queueKey)
    ELSE QueueForget(q, it)

\* processNextWorkItem adding the key back at once after a failed pass.
OnSyncResultAddsAtOnce(q, it, e) ==
    IF IsError(e) THEN QueueAdd(q, queueKey) ELSE QueueForget(q, it)

\* processNextWorkItem adding the key back rate limited after every pass.
OnSyncResultRequeuesAlways(q, it, e) == QueueAddRateLimited(q, queueKey)

\* processNextWorkItem, lines 93-101, on the queue: a failed pass adds the
\* key back rate limited, a good one forgets the item.
OnSyncResult(q, it, e) ==
    IF IsError(e) THEN QueueAddRateLimited(q, queueKey) ELSE QueueForget(q, it)

\* The retry a failed pass leaves behind, unless the queue is shut down:
\* whether the key was added by someone else since the pass was dequeued
\* or a sooner retry is still waiting.
RetryOf(q) ==
    IF q.shuttingDown THEN NoRetry
    ELSE [active |-> TRUE,
          otherAdd |-> queueKey \in q.dirty \/ \E x \in q.waiting : x.key = queueKey]

\* The pass is over: what c.sync returned is handled, and the locals of
\* Sync and SyncBackends are gone.
WorkerResult(w) ==
    /\ wpc[w] = "result"
    /\ wq' = OnSyncResult(wq, item[w], err[w])
    /\ retry' = IF IsError(err[w]) THEN RetryOf(wq) ELSE retry
    /\ wpc' = [wpc EXCEPT ![w] = "done"]
    /\ desired' = [desired EXCEPT ![w] = <<>>]
    /\ txID' = [txID EXCEPT ![w] = EmptyId]
    /\ idx' = [idx EXCEPT ![w] = 0]
    /\ calls' = [calls EXCEPT ![w] = <<>>]
    /\ err' = [err EXCEPT ![w] = NoError]
    /\ UNCHANGED <<syncer, mirror, stale, ctxDone, runPc, remote, faults, item>>

\* processNextWorkItem without its deferred Done.
processNextWorkItemNoDone(q, it) == q

\* processNextWorkItem's deferred queue.Done(item), line 91.
processNextWorkItemDone(q, it) == QueueDone(q, it)

WorkerDone(w) ==
    /\ wpc[w] = "done"
    /\ wq' = processNextWorkItemDone(wq, item[w])
    /\ wpc' = [wpc EXCEPT ![w] = "get"]
    /\ item' = [item EXCEPT ![w] = ""]
    /\ UNCHANGED <<syncer, mirror, stale, ctxDone, runPc, retry, remote, faults, desired, txID, idx, err, calls>>

\* ------------------------------------------------------ the specification

\* A step of worker w's goroutine, while the process lives.
WorkerStep(w) ==
    /\ runPc # "exited"
    /\ \/ WorkerGet(w)
       \/ WorkerExit(w)
       \/ \E listed \in BOOLEAN : WorkerList(w, listed)
       \/ FetchVersion(w)
       \/ BeginPost(w)
       \/ UpdateServer(w)
       \/ UpdateHealthChecks(w)
       \/ CommitTransaction(w)
       \/ AbortTransaction(w)
       \/ WorkerResult(w)
       \/ WorkerDone(w)

Next ==
    \/ RunStartInformers
    \/ \E ok \in BOOLEAN : RunWaitForSync(ok)
    \/ RunCtxDone
    \/ MainReturns
    \/ Cancel
    \/ \E event \in {"add", "update", "delete"}, obj \in {EndpointsObj, EndpointSliceObj},
          contents \in MirrorContents : Notify(event, obj, contents)
    \/ \E e \in wq.waiting : Elapse(e)
    \/ \E e \in wq.waiting : DelayedAdd(e)
    \/ \E w \in Workers : WorkerStep(w)

Spec == Init /\ [][Next]_vars

\* The scheduling the controller relies on: a worker goroutine that can
\* take a step takes it (every HTTP call returns, by answer or by the
\* client's timeout), time passes, and the delaying queue's loop runs.
Fairness ==
    /\ \A w \in Workers : WF_vars(WorkerStep(w))
    /\ WF_vars(\E e \in wq.waiting : Elapse(e))
    /\ WF_vars(\E e \in wq.waiting : DelayedAdd(e))

FairSpec == Init /\ [][Next]_vars /\ Fairness

\* The same, of the worker goroutines alone.
WorkerFairSpec == Init /\ [][Next]_vars /\ \A w \in Workers : WF_vars(WorkerStep(w))

\* -------------------------------------------------- reading a pass's record

\* SyncBackends, or the pass before it, has returned to processNextWorkItem.
Returned(w) == wpc[w] = "result"

\* The positions of the pass's record that hold a request of kind op.
At(w, op) == {i \in 1..Len(calls[w]) : calls[w][i].op = op}

\* The client call behind the record c returned an error.
Failed(c) == ~c.sent \/ IsError(doRequest(c.resp))

\* The record c is a request the remote side answered with 404.
NotFound(c) == c.sent /\ ~c.resp.transport /\ c.resp.status = 404

ServerOps == {"PUT server", "POST server"}

\* The record c is a failure of UpdateBackendsInTransaction: a PUT refused
\* with anything but 404, or a refused POST.
ApplyFailure(c) ==
    /\ c.op \in ServerOps
    /\ Failed(c)
    /\ ~(c.op = "PUT server" /\ NotFound(c))

\* The identifiers the pass's begin returned.
BeginIds(w) ==
    {calls[w][i].resp.id : i \in {j \in At(w, "POST transactions") :
                                     ~Failed(calls[w][j]) /\ calls[w][j].resp.id # EmptyId}}

\* SyncBackends' stage of a request.
StageOf(op) ==
    CASE op \in {"GET version", "POST transactions"} -> 1
      [] op \in ServerOps                            -> 2
      [] op = "PUT backend"                          -> 3
      [] op = "PUT transaction"                      -> 4
      [] op = "DELETE transaction"                   -> 5

ServerNames(cfg) == {sv.name : sv \in cfg.servers}
DesiredNames(w) == {desired[w][i].Name : i \in 1..Len(desired[w])}

\* ---------------------------------------------------------------- claim C1

\* C1: after a sync pass that committed, the servers of the
\* remote backend are exactly the desired servers of that pass, so that a
\* server whose member left the membership is no longer in the backend.
C1_BackendEqualsDesired ==
    \A w \in Workers :
        (wpc[w] = "result" /\ ~IsError(err[w]))
            => ServerNames(remote.config) = DesiredNames(w)

\* ---------------------------------------------------------------- claim C2

\* C2: once SyncBackends has returned, the transaction it opened
\* is no longer open on the remote side.
C2_NeverLeftOpen ==
    \A w \in Workers :
        (Returned(w) /\ txID[w] # EmptyId) => ~TxOpen(remote, txID[w])


\* ---------------------------------------------------------------- claim C3

\* C3: the requests of a pass follow the order begin, update backends,
\* update health checks, commit; a commit is requested only when begin, the
\* update of every desired server and the update of the health checks have
\* all succeeded; and SyncBackends returns without error only when its
\* last request was a commit that succeeded.
C3_FixedOrderCommitLast ==
    \A w \in Workers :
        LET L == calls[w]
        IN  /\ \A i, j \in 1..Len(L) : i < j => StageOf(L[i].op) <= StageOf(L[j].op)
            /\ \A op \in {"GET version", "POST transactions", "PUT backend", "PUT transaction"} :
                   Cardinality(At(w, op)) <= 1
            /\ \A i \in At(w, "PUT transaction") :
                   /\ L[i].tx \in BeginIds(w)
                   /\ \A j \in 1..(i - 1) :
                          Failed(L[j]) => (L[j].op = "PUT server" /\ NotFound(L[j]))
                   /\ \A k \in 1..Len(desired[w]) :
                          \E j \in 1..(i - 1) : /\ L[j].op \in ServerOps
                                                /\ L[j].body = serverPayload(desired[w][k])
                                                /\ ~Failed(L[j])
                   /\ \E j \in 1..(i - 1) : L[j].op = "PUT backend" /\ ~Failed(L[j])
            /\ (Returned(w) /\ ~IsError(err[w]))
                   => /\ Len(L) > 0
                      /\ L[Len(L)].op = "PUT transaction"
                      /\ ~Failed(L[Len(L)])

\* A pass with two desired servers has returned without error after its
\* commit.
C3_Witness ==
    \E w \in Workers :
        /\ Returned(w)
        /\ ~IsError(err[w])
        /\ Len(desired[w]) = 2
        /\ At(w, "PUT transaction") # {}
        /\ At(w, "PUT backend") # {}

\* ---------------------------------------------------------------- claim C4

\* C4: when the update of the backends fails at one server, no request for
\* a later server, no health checks update and no commit follow: what
\* follows is nothing but the abort, and once SyncBackends has returned it
\* is exactly one abort, for the identifier begin returned.
C4_ApplyFailureStopsAndAborts ==
    \A w \in Workers :
        LET L == calls[w]
        IN  \A i \in 1..Len(L) :
                ApplyFailure(L[i])
                    => /\ \A j \in (i + 1)..Len(L) : L[j].op = "DELETE transaction"
                       /\ \A j \in 1..Len(L), k \in (idx[w] + 1)..Len(desired[w]) :
                              L[j].body # serverPayload(desired[w][k])
                       /\ L[i].body = serverPayload(desired[w][idx[w]])
                       /\ At(w, "PUT backend") = {}
                       /\ At(w, "PUT transaction") = {}
                       /\ Returned(w) => /\ Cardinality(At(w, "DELETE transaction")) = 1
                                         /\ L[Len(L)].tx \in BeginIds(w)
                                         /\ L[Len(L)].sent
                                         /\ err[w].stage = "updating backends"

\* The update failed at the first of two servers and SyncBackends has
\* returned: the second server was never sent.
C4_Witness ==
    \E w \in Workers :
        /\ Returned(w)
        /\ Len(desired[w]) = 2
        /\ idx[w] = 1
        /\ \E i \in 1..Len(calls[w]) : ApplyFailure(calls[w][i])
        /\ At(w, "DELETE transaction") # {}

\* ---------------------------------------------------------------- claim C5

\* C5, as stated: for a transaction whose begin succeeded, exactly one of
\* commit and abort has been invoked when SyncBackends returns.
C5_ExactlyOneOfCommitAbort ==
    \A w \in Workers :
        (Returned(w) /\ BeginIds(w) # {})
            => Cardinality(At(w, "PUT transaction")) + Cardinality(At(w, "DELETE transaction")) = 1

\* C5, amended: for a transaction whose begin succeeded, when SyncBackends
\* returns commit and abort have each been invoked at most once and at
\* least one of them has; abort has been invoked exactly when SyncBackends
\* returns an error, so both have exactly when the commit itself failed.
C5_CommitOrAbortBothIffCommitFailed ==
    \A w \in Workers :
        (Returned(w) /\ BeginIds(w) # {})
            => /\ Cardinality(At(w, "PUT transaction")) <= 1
               /\ Cardinality(At(w, "DELETE transaction")) <= 1
               /\ At(w, "PUT transaction") \cup At(w, "DELETE transaction") # {}
               /\ At(w, "DELETE transaction") # {} <=> IsError(err[w])
               /\ (At(w, "PUT transaction") # {} /\ At(w, "DELETE transaction") # {})
                      <=> \E i \in At(w, "PUT transaction") : Failed(calls[w][i])
               /\ \A i \in At(w, "PUT transaction") \cup At(w, "DELETE transaction") :
                      calls[w][i].tx \in BeginIds(w)

\* A commit failed and SyncBackends has returned: both commit and abort
\* were invoked for the transaction.
C5_Witness ==
    \E w \in Workers :
        /\ Returned(w)
        /\ BeginIds(w) # {}
        /\ \E i \in At(w, "PUT transaction") : Failed(calls[w][i])
        /\ At(w, "DELETE transaction") # {}

\* ---------------------------------------------------------------- claim C6

\* A pass in which SyncBackends was called and has returned an error.
SyncBackendsFailed(w) == Returned(w) /\ IsError(err[w]) /\ err[w].stage # "listing"

\* C6, as stated: whenever SyncBackends returns an error, exactly one abort
\* was attempted, whatever the stage that failed.
C6_OneAbortOnAnyError ==
    \A w \in Workers :
        SyncBackendsFailed(w) => Cardinality(At(w, "DELETE transaction")) = 1

\* C6, amended: when SyncBackends returns an error of the backends update,
\* the health checks update or the commit, exactly one abort was attempted;
\* when it returns an error of begin, no abort was attempted.
C6_OneAbortAfterBeginNoneOnBegin ==
    \A w \in Workers :
        SyncBackendsFailed(w)
            => Cardinality(At(w, "DELETE transaction")) =
                   (IF err[w].stage = "beginning transaction" THEN 0 ELSE 1)

\* SyncBackends has returned begin's error, and no abort was attempted.
C6_Witness ==
    \E w \in Workers :
        /\ SyncBackendsFailed(w)
        /\ err[w].stage = "beginning transaction"
        /\ At(w, "DELETE transaction") = {}
        /\ At(w, "POST transactions") # {}

\* ---------------------------------------------------------------- claim C7

\* C7: a server is first sent as a PUT; a POST with the same payload and
\* transaction follows exactly when the PUT was answered 404, and only
\* then; a PUT that failed otherwise is followed by no request for a
\* server, and so is a POST that failed.
C7_CreateIffNotFound ==
    \A w \in Workers :
        LET L == calls[w]
        IN  /\ \A i \in At(w, "PUT server") :
                   /\ NotFound(L[i]) <=>
                          IF i < Len(L) THEN L[i + 1].op = "POST server" ELSE wpc[w] = "post"
                   /\ (NotFound(L[i]) /\ i < Len(L))
                          => /\ L[i + 1].body = L[i].body
                             /\ L[i + 1].tx = L[i].tx
                             /\ \A j \in (i + 2)..Len(L) :
                                    ~(L[j].op = "POST server" /\ L[j].body = L[i].body)
            /\ \A i \in At(w, "POST server") :
                   /\ i > 1
                   /\ L[i - 1].op = "PUT server"
                   /\ NotFound(L[i - 1])
            /\ \A i \in 1..Len(L) :
                   ApplyFailure(L[i]) => \A j \in (i + 1)..Len(L) : L[j].op \notin ServerOps
            /\ wpc[w] = "post" => (Len(L) > 0 /\ L[Len(L)].op = "PUT server")

\* A PUT was answered 404 and the POST that followed failed: SyncBackends
\* has returned the create's error.
C7_Witness ==
    \E w \in Workers :
        /\ Returned(w)
        /\ \E i \in At(w, "POST server") :
               /\ Failed(calls[w][i])
               /\ NotFound(calls[w][i - 1])
        /\ err[w].op = "create server"

\* ---------------------------------------------------------------- claim C8

\* C8: in every reachable state the work queue holds nothing, or the
\* reconcile key once.
C8_AtMostOnePending == wq.queue \in {<<>>, <<queueKey>>}

\* The startup seed and a notification have both added the key before any
\* worker took it, and the queue holds it once.
C8_Witness ==
    /\ runPc = "running"
    /\ stale
    /\ ~ctxDone
    /\ faults = 0
    /\ wq.failures[queueKey] = 0
    /\ remote.begun = 0
    /\ \A w \in Workers : wpc[w] = "get"
    /\ wq.queue = <<queueKey>>

\* ---------------------------------------------------------------- claim C9

\* C9: while the controller runs, a notification is eventually followed by
\* a pass that lists the mirror after it (or the controller is told to
\* stop).
C9_NotificationLeadsToListing ==
    (stale /\ runPc = "running") ~> (~stale \/ ctxDone)

\* A notification arrived while a pass that had listed before it was still
\* under way: only another pass can list after it.
C9_Witness ==
    /\ stale
    /\ runPc = "running"
    /\ ~ctxDone
    /\ \E w \in Workers : wpc[w] \in {"put", "post", "health", "commit", "abort"}
    /\ wq.queue = <<>>
    /\ queueKey \in wq.dirty

\* --------------------------------------------------------------- claim C10

\* The retry of a failed pass is waiting and its delay has not elapsed.
BackoffRunning ==
    /\ retry.active
    /\ \E e \in wq.waiting : e.key = queueKey /\ ~e.due

\* C10, as stated: after a failed pass the key is not in the queue before
\* the backoff delay has elapsed.
C10_ReappearsOnlyAfterBackoff ==
    BackoffRunning => queueKey \notin Range(wq.queue)

\* C10, amended: a failed pass puts the key back through the rate limiter
\* only, so the key waits for a delay and the worker goes on; before that
\* delay has elapsed the key is in the queue, or marked for it, only if a
\* notification or the startup seed added it, or if a retry was already
\* waiting when the pass failed.
C10_BackoffUnlessAddedOtherwise ==
    /\ retry.active => \E e \in wq.waiting : e.key = queueKey
    /\ \A e \in wq.waiting : e.key = queueKey
    /\ (BackoffRunning /\ ~retry.otherAdd)
           => /\ queueKey \notin Range(wq.queue)
              /\ queueKey \notin wq.dirty

\* The failed pass's worker is back at Get while the key still waits for
\* its delay and is not in the queue.
C10_Witness ==
    /\ BackoffRunning
    /\ ~retry.otherAdd
    /\ \A w \in Workers : wpc[w] = "get"
    /\ wq.queue = <<>>
    /\ wq.processing = {}

\* --------------------------------------------------------------- claim C11

\* A pass has failed and its worker is about to handle the error.
PassFailed(w) == wpc[w] = "result" /\ IsError(err[w])

\* C11: whatever its error and however many failures came before, a failed
\* pass leaves the key waiting in the rate limited queue (unless the queue
\* is shut down) and its worker goes back to Get (while the process
\* lives); and a failed pass is eventually followed by another pass, or by
\* the queue's shutdown.
C11_FailedPassIsRetried ==
    /\ [][\A w \in Workers :
              /\ (PassFailed(w) /\ wpc'[w] = "done" /\ ~wq.shuttingDown)
                     => /\ \E e \in wq'.waiting : e.key = queueKey
                        /\ wq'.failures[queueKey] > 0
              /\ (wpc[w] = "done" /\ wpc'[w] # "done" /\ runPc' # "exited")
                     => wpc'[w] = "get"]_vars
    /\ (\E w \in Workers : PassFailed(w))
           ~> ((\E w \in Workers : wpc[w] = "sync") \/ wq.shuttingDown)

\* A pass has failed on a request (transport, status, empty identifier) after an earlier
\* pass had failed too, and the queue is not shut down.
C11_Witness ==
    \E w \in Workers :
        /\ PassFailed(w)
        /\ err[w].kind \in {"empty id", "status", "transport"}
        /\ wq.failures[queueKey] > 0
        /\ ~wq.shuttingDown
        /\ ~ctxDone

\* --------------------------------------------------------------- claim C12

\* C12: when Run's wait for the initial sync succeeds the key is in the
\* queue, whether or not a notification was delivered; and a key that is
\* in the queue while the controller runs is eventually taken by a worker
\* for a pass, unless the process ends first.
C12_SeedLeadsToPass ==
    /\ [][(runPc = "waitSync" /\ runPc' = "running")
              => wq'.queue = <<queueKey>>]_vars
    /\ (runPc = "running" /\ wq.queue = <<queueKey>>)
           ~> ((\E w \in Workers : wpc[w] = "sync") \/ runPc = "exited")

\* The first pass is under way and no notification was ever delivered.
C12_Witness ==
    /\ \E w \in Workers : wpc[w] = "sync"
    /\ ~stale
    /\ ~ctxDone
    /\ remote.begun = 0
    /\ faults = 0
    /\ wq.failures[queueKey] = 0

\* --------------------------------------------------------------- claim C13

\* C13: until the wait for the initial sync has succeeded no worker runs,
\* whatever the handlers have enqueued meanwhile; while no worker was ever
\* started the syncer was never invoked (nothing was listed, the remote
\* side never heard of the controller); and when the wait fails Run
\* returns its error with the queue shut down and no worker started.
C13_NoPassBeforeInitialSync ==
    /\ runPc \in {"init", "waitSync", "failed"} => \A w \in Workers : wpc[w] = "off"
    /\ (\A w \in Workers : wpc[w] = "off") => (remote = InitRemote /\ faults = 0)
    /\ runPc = "failed" => (wq.shuttingDown /\ ctxDone)
    /\ (runPc = "exited" /\ \A w \in Workers : wpc[w] = "off") => wq.shuttingDown

\* The wait for the initial sync failed after a notification had put the
\* key into the queue: Run has returned its error and no worker runs.
C13_Witness ==
    /\ runPc = "failed"
    /\ wq.queue = <<queueKey>>
    /\ wq.shuttingDown
    /\ \A w \in Workers : wpc[w] = "off"

\* --------------------------------------------------------------- claim C14

\* C14: once Run has returned the queue is shut down and nothing waits to
\* be added to it; and shutdown interrupts no worker: when the process has
\* ended, every worker that was started has finished its item and left its
\* loop.
C14_WorkersDrainAndExit ==
    /\ runPc \in {"returned", "failed", "exited"} => (wq.shuttingDown /\ wq.waiting = {})
    /\ runPc = "exited" => \A w \in Workers : wpc[w] \in {"off", "exited"}

\* ------------------------------------------------- the mapper on its own

\* Sequences of at most two members of S.
UpToTwo(S) == {<<>>} \cup {<<x>> : x \in S} \cup {<<x, y>> : x \in S, y \in S}

\* discoveryv1.Endpoint values: one or two addresses, the three readiness
\* conditions, and no node name, an empty one, or node1.
MapperEndpoints ==
    {Endpoint(a, r, n) : a \in {<<"10.0.0.1">>, <<"10.0.0.1", "10.0.0.3">>},
                         r \in {NilBool, Ptr(TRUE), Ptr(FALSE)},
                         n \in {Nil, Ptr(""), Ptr("node1")}}

\* discoveryv1.EndpointPort values: without a number, and two numbers.
MapperPorts == {NilPort, Ptr(8080), Ptr(8443)}

MapperSlices == {Slice(ports, eps) : ports \in UpToTwo(MapperPorts), eps \in UpToTwo(MapperEndpoints)}

\* corev1.Endpoints values: one subset each, and one object of two subsets.
EndpointAddress(ip, node) == [IP |-> ip, NodeName |-> node]
LegacyEndpoints(ports, addrs) == [Subsets |-> <<[Ports |-> ports, Addresses |-> addrs]>>]
MapperLegacy ==
    { <<>>,
      << LegacyEndpoints(<<9090>>, <<EndpointAddress("10.0.0.9", Nil)>>) >>,
      << LegacyEndpoints(<<9090, 9091>>, <<EndpointAddress("10.0.0.9", Ptr("node1")),
                                           EndpointAddress("10.0.0.8", Ptr("node1"))>>) >>,
      << [Subsets |-> LegacyEndpoints(<<8080>>, <<EndpointAddress("10.0.0.2", Nil)>>).Subsets
                      \o LegacyEndpoints(<<8443>>, <<EndpointAddress("10.0.0.3", Nil)>>).Subsets] >> }

\* What the listers may return: no slice or one, with the legacy objects.
MapperMirrors ==
    {[slices |-> sl, endpoints |-> le] :
        sl \in {<<>>} \cup {<<s>> : s \in MapperSlices}, le \in MapperLegacy}

\* Node tables: empty, node1 known, node1 known without an address, and
\* a node without a name known besides node1.
MapperNodeIPs ==
    { <<>>,
      [n \in {"node1"} |-> "192.168.0.5"],
      [n \in {"node1"} |-> ""],
      [n \in {"", "node1"} |-> IF n = "" THEN "192.168.0.7" ELSE "192.168.0.5"] }

\* Syncers: no override, a negative one, a positive one.
MapperSyncers ==
    {NewSyncerWithPort(port, nodeIPs) : port \in {0, -1, 30443}, nodeIPs \in MapperNodeIPs}

\* A worker holds the key and is about to run Controller.sync, on any
\* membership and any syncer.
MapperInit ==
    /\ mirror \in MapperMirrors
    /\ syncer \in MapperSyncers
    /\ stale = FALSE
    /\ ctxDone = FALSE
    /\ runPc = "running"
    /\ wq = QueueGet(QueueAdd(NewRateLimitingQueue, queueKey))
    /\ retry = NoRetry
    /\ remote = InitRemote
    /\ faults = 0
    /\ wpc = [w \in Workers |-> IF w = 1 THEN "sync" ELSE "get"]
    /\ item = [w \in Workers |-> IF w = 1 THEN queueKey ELSE ""]
    /\ desired = [w \in Workers |-> <<>>]
    /\ txID = [w \in Workers |-> EmptyId]
    /\ idx = [w \in Workers |-> 0]
    /\ err = [w \in Workers |-> NoError]
    /\ calls = [w \in Workers |-> <<>>]

\* The one step: the mirror is listed and Syncer.Sync maps it.
MapperNext == \E w \in Workers, listed \in BOOLEAN : WorkerList(w, listed)

MapperSpec == MapperInit /\ [][MapperNext]_vars

\* The worker has listed the mirror and holds the mapper's list.
Mapped(w) == wpc[w] = "fetchVersion"

\* ------------------------------------------------------------------ C15

\* C15: within one run of the mapper the names of the emitted server
\* specs are pairwise distinct, whatever the membership: several ports on
\* one slice with a positive port override, and several addresses that
\* share one host identifier, included.
C15_NamesPairwiseDistinct ==
    \A w \in Workers :
        Mapped(w) =>
            \A i \in 1..Len(desired[w]), j \in 1..Len(desired[w]) :
                i # j => desired[w][i].Name # desired[w][j].Name

\* ------------------------------------------------------------------ C16

\* The (address, host identifier) pairs of a membership.
MemberRecords(m) ==
    UNION {UNION {{[raw |-> ep.Addresses[i], node |-> ep.NodeName] : i \in 1..Len(ep.Addresses)} :
                     ep \in Range(sl.Endpoints)} : sl \in Range(m.slices)}
    \cup
    UNION {UNION {{[raw |-> a.IP, node |-> a.NodeName] : a \in Range(sub.Addresses)} :
                     sub \in Range(le.Subsets)} : le \in Range(m.endpoints)}

\* The identifier of a name: the host identifier when present and not
\* empty, the resolved address otherwise.
NameIdentifier(rec, nodeIPs) ==
    IF rec.node.set /\ rec.node.val # ""
    THEN rec.node.val
    ELSE resolveAddress(rec.raw, rec.node, nodeIPs)

\* C16: every emitted spec is named "{identifier}-{port}" for its own
\* port and the identifier of a member it was made of: the host identifier
\* when present and not empty (node1 and 8080 give node1-8080, also when
\* node1 is mapped to an internal IP), the resolved address otherwise
\* (10.0.0.3 without host identifier gives 10.0.0.3-8080).
C16_NamedByHostIdentifier ==
    \A w \in Workers :
        Mapped(w) =>
            \A i \in 1..Len(desired[w]) :
                \E rec \in MemberRecords(mirror) :
                    /\ desired[w][i].Address = resolveAddress(rec.raw, rec.node, syncer.nodeIPs)
                    /\ desired[w][i].Name =
                           FormatName(NameIdentifier(rec, syncer.nodeIPs), desired[w][i].Port)

\* ------------------------------------------------------------------ C17

RECURSIVE SeqSum(_)
SeqSum(ns) == IF ns = <<>> THEN 0 ELSE Head(ns) + SeqSum(Tail(ns))

\* An endpoint explicitly marked not ready.
NotReady(ep) == ep.Ready.set /\ ~ep.Ready.val

\* The ports of a slice that carry a number.
UsablePorts(sl) == {k \in 1..Len(sl.Ports) : sl.Ports[k].set}

\* The addresses of a slice's endpoints that are not marked not ready.
ReadyAddresses(sl) ==
    SeqSum([j \in 1..Len(sl.Endpoints) |->
               IF NotReady(sl.Endpoints[j]) THEN 0 ELSE Len(sl.Endpoints[j].Addresses)])

\* What the slice mapper gives on the state's membership and syncer.
SliceList == BuildBackendsFromEndpointSlices(mirror.slices, syncer.nodeIPs, syncer.port)

\* C17: the slice mapper emits nothing for an endpoint whose ready flag is
\* present and false, and for an endpoint whose flag is absent or true it
\* emits one spec for each address under each usable port of the slice: so
\* many specs and no more, each address of a ready endpoint among them.
C17_ReadinessFilter ==
    \A w \in Workers :
        Mapped(w) =>
            \A out \in {SliceList} :
                /\ mirror.endpoints = <<>> => desired[w] = out
                /\ Len(out) =
                       SeqSum([s \in 1..Len(mirror.slices) |->
                                  Cardinality(UsablePorts(mirror.slices[s]))
                                      * ReadyAddresses(mirror.slices[s])])
                /\ \A sl \in Range(mirror.slices) :
                       \A k \in UsablePorts(sl), ep \in Range(sl.Endpoints) :
                           ~NotReady(ep) =>
                               \A a \in Range(ep.Addresses) :
                                   \E i \in 1..Len(out) :
                                       /\ out[i].Address =
                                              resolveAddress(a, ep.NodeName, syncer.nodeIPs)
                                       /\ out[i].Port = selectPort(sl.Ports[k], syncer.port)
                /\ (\A sl \in Range(mirror.slices) :
                       \A ep \in Range(sl.Endpoints) : NotReady(ep))
                       => out = <<>>

\* A slice with a usable port, one endpoint marked not ready and one
\* without readiness information was mapped: only the second is emitted.
C17_Witness ==
    /\ Mapped(1)
    /\ mirror.endpoints = <<>>
    /\ Len(mirror.slices) = 1
    /\ mirror.slices[1].Ports = <<Ptr(8080)>>
    /\ Len(mirror.slices[1].Endpoints) = 2
    /\ mirror.slices[1].Endpoints[1].Ready = Ptr(FALSE)
    /\ mirror.slices[1].Endpoints[1].Addresses = <<"10.0.0.1", "10.0.0.3">>
    /\ mirror.slices[1].Endpoints[2].Ready = NilBool
    /\ mirror.slices[1].Endpoints[2].Addresses = <<"10.0.0.1">>
    /\ Len(desired[1]) = 1

\* ------------------------------------------------------------------ C18

\* What the legacy mapper gives on the state's membership and syncer.
LegacyList == BuildBackendsFromEndpoints(mirror.endpoints, syncer.nodeIPs, syncer.port)

\* The port numbers the membership advertises to each mapper.
SlicePortNumbers ==
    UNION {{sl.Ports[k].val : k \in UsablePorts(sl)} : sl \in Range(mirror.slices)}
LegacyPortNumbers ==
    UNION {UNION {Range(sub.Ports) : sub \in Range(le.Subsets)} : le \in Range(mirror.endpoints)}

Ports(list) == {list[i].Port : i \in 1..Len(list)}

\* C18: with a port override greater than zero every spec of either
\* mapper, and so of Sync, has the override as its port; with an override
\* of zero or less every spec has a port its membership advertises, every
\* advertised port that has a member appears, and selectPort gives 0 when
\* no port is advertised.
C18_OverridePrecedence ==
    \A w \in Workers :
        Mapped(w) =>
            \A sliceList \in {SliceList}, legacyList \in {LegacyList} :
                /\ desired[w] \in {sliceList, legacyList}
                /\ syncer.port > 0 =>
                       /\ Ports(sliceList) \subseteq {syncer.port}
                       /\ Ports(legacyList) \subseteq {syncer.port}
                       /\ selectPort(NilPort, syncer.port) = syncer.port
                /\ syncer.port <= 0 =>
                       /\ Ports(sliceList) \subseteq SlicePortNumbers
                       /\ sliceList # <<>> => Ports(sliceList) = SlicePortNumbers
                       /\ Ports(legacyList) = LegacyPortNumbers
                       /\ selectPort(NilPort, syncer.port) = 0

\* A slice advertising 8080 and 8443 was mapped under the override 30443:
\* each of its specs has port 30443.
C18_Witness ==
    /\ Mapped(1)
    /\ syncer.port = 30443
    /\ Len(mirror.slices) = 1
    /\ mirror.slices[1].Ports = <<Ptr(8080), Ptr(8443)>>
    /\ Len(desired[1]) = 2
    /\ desired[1] = SliceList
    /\ Ports(desired[1]) = {30443}

\* ------------------------------------------------------------------ C19

\* The resolved address of a member under the state's node table.
Resolved(rec) == resolveAddress(rec.raw, rec.node, syncer.nodeIPs)

\* The member's host identifier is present and the table maps it to an
\* address that is not empty.
MappedHost(rec) ==
    /\ rec.node.set
    /\ rec.node.val \in DOMAIN syncer.nodeIPs
    /\ syncer.nodeIPs[rec.node.val] # ""

\* C19: address resolution gives the table's address for a host
\* identifier that is present and mapped to a non-empty address, and the
\* raw address in every other case: no host identifier, one the table does
\* not hold, one mapped to the empty string. Each emitted spec's address
\* is the resolved address of a member, and Sync's legacy list carries
\* the resolved address of each of its members.
C19_ResolveAddress ==
    \A w \in Workers :
        Mapped(w) =>
            /\ \A rec \in MemberRecords(mirror) :
                   /\ MappedHost(rec) => Resolved(rec) = syncer.nodeIPs[rec.node.val]
                   /\ ~rec.node.set => Resolved(rec) = rec.raw
                   /\ (rec.node.set /\ rec.node.val \notin DOMAIN syncer.nodeIPs)
                          => Resolved(rec) = rec.raw
                   /\ (rec.node.set /\ rec.node.val \in DOMAIN syncer.nodeIPs
                          /\ syncer.nodeIPs[rec.node.val] = "")
                          => Resolved(rec) = rec.raw
            /\ \A i \in 1..Len(desired[w]) :
                   \E rec \in MemberRecords(mirror) :
                       desired[w][i].Address =
                           IF MappedHost(rec) THEN syncer.nodeIPs[rec.node.val] ELSE rec.raw
            /\ mirror.slices = <<>> =>
                   {desired[w][i].Address : i \in 1..Len(desired[w])} =
                       {IF MappedHost(rec) THEN syncer.nodeIPs[rec.node.val] ELSE rec.raw :
                            rec \in MemberRecords(mirror)}

\* A member 10.0.0.1 on node1 was mapped with node1 known as 192.168.0.5:
\* its spec carries the node's address.
C19_Witness ==
    /\ Mapped(1)
    /\ syncer.nodeIPs = [n \in {"node1"} |-> "192.168.0.5"]
    /\ Len(mirror.slices) = 1
    /\ mirror.slices[1].Endpoints = <<Endpoint(<<"10.0.0.1">>, Ptr(TRUE), Ptr("node1"))>>
    /\ Len(desired[1]) = 1
    /\ desired[1][1].Address = "192.168.0.5"

\* ------------------------------------------------------------------ C20

\* C20: Sync maps to the slices' list whenever that list is not empty,
\* whatever the legacy endpoints hold, and to the legacy endpoints' list
\* exactly when the slices' list is empty: when there is no slice, or each
\* slice has no usable port or no address of an endpoint not marked not
\* ready.
C20_SlicesBeforeLegacy ==
    \A w \in Workers :
        Mapped(w) =>
            \A sliceList \in {SliceList}, legacyList \in {LegacyList} :
                /\ sliceList # <<>> => desired[w] = sliceList
                /\ sliceList = <<>> => desired[w] = legacyList
                /\ sliceList = <<>> <=>
                       \A sl \in Range(mirror.slices) :
                           UsablePorts(sl) = {} \/ ReadyAddresses(sl) = 0

\* Slices and legacy endpoints both had members when Sync mapped: the
\* desired list is the slices' list and holds nothing of the legacy one.
C20_Witness ==
    /\ Mapped(1)
    /\ SliceList # <<>>
    /\ LegacyList # <<>>
    /\ desired[1] = SliceList
    /\ Ports(desired[1]) \cap Ports(LegacyList) = {}

\* ------------------------------------------------------------------ C21

RECURSIVE SelectSeq2(_, _)
\* The members of a sequence that are in a set, in their order.
SelectSeq2(seq, keep) ==
    IF seq = <<>> THEN <<>>
    ELSE IF Head(seq) \in keep THEN <<Head(seq)>> \o SelectSeq2(Tail(seq), keep)
    ELSE SelectSeq2(Tail(seq), keep)

\* The same membership as a slice's, as one legacy subset: the ports that
\* carry a number, and the addresses of the endpoints not marked not
\* ready, each with its endpoint's host identifier.
LegacyOf(sl) ==
    LegacyEndpoints(
        [k \in 1..Len(SelectSeq2(sl.Ports, {pt \in Range(sl.Ports) : pt.set})) |->
            SelectSeq2(sl.Ports, {pt \in Range(sl.Ports) : pt.set})[k].val],
        Flatten([j \in 1..Len(sl.Endpoints) |->
            IF NotReady(sl.Endpoints[j]) THEN <<>>
            ELSE [i \in 1..Len(sl.Endpoints[j].Addresses) |->
                     EndpointAddress(sl.Endpoints[j].Addresses[i], sl.Endpoints[j].NodeName)]]))

\* C21: for the same membership, once as one endpoint slice and once as
\* one legacy subset, the two mappers give the same ordered list of specs
\* (name, address, port, weight, check), under every node table and port
\* override; the list Sync maps a lone slice to is the legacy mapper's
\* list of the same membership.
C21_ShapesAgree ==
    \A w \in Workers :
        (Mapped(w) /\ Len(mirror.slices) = 1) =>
            \A legacyList \in {BuildBackendsFromEndpoints(<<LegacyOf(mirror.slices[1])>>,
                                                          syncer.nodeIPs, syncer.port)} :
                /\ legacyList = SliceList
                /\ legacyList # <<>> => desired[w] = legacyList

\* A slice with two ports and two ready endpoints of node1, one of them
\* with two addresses, was mapped: six specs.
C21_Witness ==
    /\ Mapped(1)
    /\ Len(mirror.slices) = 1
    /\ mirror.slices[1].Ports = <<Ptr(8080), Ptr(8443)>>
    /\ Len(mirror.slices[1].Endpoints) = 2
    /\ mirror.slices[1].Endpoints[1].Addresses = <<"10.0.0.1", "10.0.0.3">>
    /\ mirror.slices[1].Endpoints[2].NodeName = Ptr("node1")
    /\ syncer.port = 0
    /\ Len(desired[1]) = 6
    /\ desired[1] = BuildBackendsFromEndpoints(<<LegacyOf(mirror.slices[1])>>,
                                                syncer.nodeIPs, syncer.port)

\* ------------------------------------------------------------------ C22

C23_SpecCount ==
    \A w \in Workers :
        Mapped(w) =>
            \A sliceList \in {SliceList}, legacyList \in {LegacyList} :
                /\ Len(sliceList) =
                       SeqSum([s \in 1..Len(mirror.slices) |->
                                  Cardinality(UsablePorts(mirror.slices[s]))
                                      * ReadyAddresses(mirror.slices[s])])
                /\ Len(legacyList) =
                       SeqSum([e \in 1..Len(mirror.endpoints) |->
                                  SeqSum([u \in 1..Len(mirror.endpoints[e].Subsets) |->
                                             Len(mirror.endpoints[e].Subsets[u].Ports)
                                                 * Len(mirror.endpoints[e].Subsets[u].Addresses)])])
                /\ Len(desired[w]) = IF sliceList = <<>> THEN Len(legacyList) ELSE Len(sliceList)

\* Two subsets of one address and one port each were mapped, with no
\* slice: two specs.
C23_Witness ==
    /\ Mapped(1)
    /\ mirror.slices = <<>>
    /\ Len(mirror.endpoints) = 1
    /\ Len(mirror.endpoints[1].Subsets) = 2
    /\ Len(desired[1]) = 2
    /\ desired[1][1].Address = "10.0.0.2"
    /\ desired[1][2].Address = "10.0.0.3"

\* ------------------------------------------------- the client on its own

\* States of the remote side a client call may meet: nothing begun yet,
\* transaction 1 open and empty, open with the first desired server in it,
\* and begun but closed again.
ClientRemoteStates ==
    { InitRemote,
      [InitRemote EXCEPT !.begun = 1, !.open = {[id |-> 1, config |-> EmptyConfig]}],
      [InitRemote EXCEPT !.begun = 1,
          !.open = {[id |-> 1, config |-> WithServer(EmptyConfig,
                        serverPayload(BackendServer("10.0.0.1", 80)))]}],
      [InitRemote EXCEPT !.begun = 1, !.version = 2] }

\* Answers besides the regular ones: a 3xx the HTTP client hands on
\* (304 Not Modified), a rejection with a body of 5 KiB, and version
\* bodies: {"version": 1}, an object without version, and -1.
ExtraAnswers ==
    { Answer(304),
      [Answer(502) EXCEPT !.body = 5],
      [Answer(200) EXCEPT !.form = "object", !.version = 1],
      [Answer(200) EXCEPT !.form = "object"],
      [Answer(200) EXCEPT !.version = -1] }

\* The same states, with and without the extra answers.
ClientRemotes ==
    ClientRemoteStates \cup {[r EXCEPT !.extra = ExtraAnswers] : r \in ClientRemoteStates}

\* The transaction identifiers a call may be given: none, and the first.
ClientTxIDs == {EmptyId, 1}

\* The backends a call may be given: none, and the two of MirrorTwo.
ClientBackends ==
    {<<>>, Sync(MirrorTwo.slices, MirrorTwo.endpoints, NewSyncer.nodeIPs, NewSyncer)}

\* The stages of SyncBackends that call the client with an identifier.
TxStages == {"put", "post", "health", "commit", "abort"}

\* A worker stands before one client call of SyncBackends, with any
\* identifier, against any state of the remote side, the context
\* cancelled or not, the fault budget used or not.
ClientInit ==
    /\ mirror = MirrorTwo
    /\ syncer = NewSyncer
    /\ stale = FALSE
    /\ ctxDone \in BOOLEAN
    /\ runPc = "running"
    /\ wq = QueueGet(QueueAdd(NewRateLimitingQueue, queueKey))
    /\ retry = NoRetry
    /\ remote \in ClientRemotes
    /\ faults \in {0, MaxFaults}
    /\ wpc \in {[w \in Workers |-> IF w = 1 THEN st ELSE "get"] :
                    st \in TxStages \cup {"fetchVersion", "beginPost"}}
    /\ item = [w \in Workers |-> IF w = 1 THEN queueKey ELSE ""]
    /\ desired \in {[w \in Workers |-> IF w = 1 THEN b ELSE <<>>] : b \in ClientBackends}
    /\ wpc[1] \in {"put", "post"} => desired[1] # <<>>
    /\ txID \in {[w \in Workers |-> IF w = 1 THEN t ELSE EmptyId] : t \in ClientTxIDs}
    /\ wpc[1] \in {"fetchVersion", "beginPost"} => txID[1] = EmptyId
    /\ idx = [w \in Workers |-> IF w = 1 THEN 1 ELSE 0]
    /\ err \in {[w \in Workers |-> IF w = 1 /\ wpc[1] = "abort" THEN e ELSE NoError] :
                    e \in {Wrap("stage", StageLabel("health"), [NoError EXCEPT !.kind = "transport"])}}
    /\ calls = [w \in Workers |-> <<>>]

\* The client's calls, as SyncBackends makes them.
ClientNext ==
    \E w \in Workers :
        \/ FetchVersion(w)
        \/ BeginPost(w)
        \/ UpdateServer(w)
        \/ UpdateHealthChecks(w)
        \/ CommitTransaction(w)
        \/ AbortTransaction(w)

ClientSpec == ClientInit /\ [][ClientNext]_vars

\* ------------------------------------------------------------------ C24

\* The last request of worker w's record.
LastCall(log) == log[Len(log)]

\* C24: each client operation that takes a transaction identifier (the
\* update of the backends, the update of the health checks, commit,
\* abort), called with the empty identifier, returns an error at once and
\* sends no request: the remote side is untouched, nothing is handed to
\* the HTTP client, and the stage ends with the empty-identifier error.
C24_EmptyIdRefusedByEveryOperation ==
    [][\A w \in Workers :
          (wpc[w] \in TxStages /\ txID[w] = EmptyId /\ calls'[w] # calls[w])
              => /\ remote' = remote
                 /\ ~LastCall(calls'[w]).sent
                 /\ wpc[w] # "abort" => err'[w].kind = "empty id"]_vars

\* ------------------------------------------------------------------ C25

\* The error the client call of a record entry returned for its answer.
CallError(c) ==
    IF c.op = "GET version" THEN fetchConfigurationVersion(c.resp) ELSE doRequest(c.resp)

\* The step is a client call of worker w that was handed to the HTTP client.
Called(w) == calls'[w] # calls[w] /\ LastCall(calls'[w]).sent

\* The call ends its stage of SyncBackends with its error.
EndsStage(w) ==
    \/ wpc[w] \in {"fetchVersion", "health", "commit"} /\ wpc'[w] # "beginPost"
    \/ wpc[w] \in {"put", "post"} /\ wpc'[w] \notin {"put", "post"}

\* C25 as stated: an answer whose status is neither 2xx nor 3xx makes
\* the call return an error with the status and at most 4 KiB of the
\* body, a 2xx or 3xx answer is not an error of the status, and a
\* transport failure is an error without status.
C25_ErrorUnless2xxOr3xx ==
    [][\A w \in Workers :
          Called(w) =>
              \A c \in {LastCall(calls'[w])} :
                  /\ c.resp.transport =>
                         (CallError(c).kind = "transport" /\ CallError(c).code = 0)
                  /\ (~c.resp.transport /\ c.resp.status \notin 200..399) =>
                         /\ CallError(c).kind \in {"status", "unexpected status"}
                         /\ CallError(c).code = c.resp.status
                         /\ CallError(c).body <= BodyLimit
                  /\ (~c.resp.transport /\ c.resp.status \in 200..399) =>
                         CallError(c).kind \notin {"status", "unexpected status", "transport"}]_vars

\* C25, amended: an answer whose status is 300 or above, 3xx included,
\* makes the call return an error with the status and the first 4 KiB of
\* the body at most; a status below 300 is no error of the status (the
\* call goes on to decode the answer); a transport failure is an error
\* without status, so the two kinds differ. An error that ends a stage of
\* SyncBackends is the stage's error.
C25_ErrorFrom300 ==
    [][\A w \in Workers :
          Called(w) =>
              \A c \in {LastCall(calls'[w])} :
                  /\ c.resp.transport =>
                         (CallError(c).kind = "transport" /\ CallError(c).code = 0)
                  /\ (~c.resp.transport /\ c.resp.status >= 300) =>
                         /\ CallError(c).kind \in {"status", "unexpected status"}
                         /\ CallError(c).code = c.resp.status
                         /\ CallError(c).body = Min(c.resp.body, BodyLimit)
                         /\ CallError(c).body <= BodyLimit
                  /\ (~c.resp.transport /\ c.resp.status < 300) =>
                         CallError(c).kind \notin {"status", "unexpected status", "transport"}
                  /\ (IsError(CallError(c)) /\ EndsStage(w)) =>
                         /\ err'[w].kind = CallError(c).kind
                         /\ err'[w].code = CallError(c).code
                         /\ err'[w].body = CallError(c).body]_vars

\* The health checks update was answered 304 and the pass goes to the
\* abort with an error of that status.
C25_Witness ==
    \E w \in Workers :
        /\ wpc[w] = "abort"
        /\ calls[w] # <<>>
        /\ LastCall(calls[w]).op = "PUT backend"
        /\ LastCall(calls[w]).resp.status = 304
        /\ err[w].kind = "status"
        /\ err[w].code = 304

\* ------------------------------------------------------------------ C26

\* The answer carries a usable configuration version: a status below
\* 300 and a positive number, bare or in an object.
UsableVersion(resp) ==
    /\ ~resp.transport
    /\ resp.status < 300
    /\ resp.form \in {"number", "object"}
    /\ resp.version > 0

\* C26: BeginTransaction fetches the configuration version first and
\* creates the transaction with that version as its parameter; when the
\* fetch fails or the version is missing or not positive, in either form,
\* begin fails and no creating request is sent; when the creating
\* request's answer carries no identifier, begin fails and returns none.
C26_BeginFetchesVersionFirst ==
    /\ [](\A w \in Workers :
            (wpc[w] = "beginPost" /\ calls[w] # <<>>) =>
                /\ LastCall(calls[w]).op = "GET version"
                /\ UsableVersion(LastCall(calls[w]).resp)
                /\ idx[w] = LastCall(calls[w]).resp.version)
    /\ [][\A w \in Workers :
              /\ (wpc[w] = "fetchVersion" /\ wpc'[w] # "fetchVersion") =>
                     /\ LastCall(calls'[w]).op = "GET version"
                     /\ IF UsableVersion(LastCall(calls'[w]).resp)
                        THEN wpc'[w] = "beginPost"
                        ELSE /\ wpc'[w] = "result"
                             /\ IsError(err'[w])
                             /\ err'[w].stage = StageLabel("begin")
                             /\ txID'[w] = EmptyId
                             /\ remote' = remote
              /\ (wpc[w] = "beginPost" /\ wpc'[w] # "beginPost") =>
                     \A c \in {LastCall(calls'[w])} :
                         /\ c.op = "POST transactions"
                         /\ c.version = idx[w]
                         /\ (IsError(doRequest(c.resp)) \/ c.resp.id = EmptyId) =>
                                /\ txID'[w] = EmptyId
                                /\ wpc'[w] = "result"
                                /\ IsError(err'[w])
                                /\ err'[w].stage = StageLabel("begin")
                         /\ (~IsError(doRequest(c.resp)) /\ c.resp.id # EmptyId) =>
                                (txID'[w] = c.resp.id /\ ~IsError(err'[w]))]_vars

\* The version came as {"version": 1} and the transaction was created
\* with version 1.
C26_Witness ==
    \E w \in Workers :
        /\ Len(calls[w]) = 2
        /\ calls[w][1].op = "GET version"
        /\ calls[w][1].resp.form = "object"
        /\ calls[w][2].op = "POST transactions"
        /\ calls[w][2].version = 1
        /\ txID[w] = 1

\* ------------------------------------------------------------------ C27

\* The stage of SyncBackends a position of the worker belongs to.
StageAt(pc) ==
    CASE pc \in {"fetchVersion", "beginPost"} -> "begin"
      [] pc \in {"put", "post"} -> "backends"
      [] pc = "health" -> "health"
      [] pc = "commit" -> "commit"
      [] OTHER -> "abort"

\* C27: the error SyncBackends returns is the first error met, wrapped
\* with the label of the stage that met it: no stage runs after an error
\* but the abort, a stage that fails sets the error of its failed call
\* under its own label, and the abort, whatever its outcome, leaves the
\* error as it is, so that a failed abort neither replaces the error nor
\* makes the pass a success.
C27_FirstErrorWithStageLabel ==
    /\ [](\A w \in Workers :
            /\ IsError(err[w]) => wpc[w] \in {"abort", "result"}
            /\ wpc[w] = "abort" => IsError(err[w]))
    /\ [][\A w \in Workers :
              /\ (wpc[w] \in {"fetchVersion", "beginPost", "put", "post", "health", "commit"}
                    /\ wpc'[w] \in {"abort", "result"} /\ IsError(err'[w])) =>
                     /\ ~IsError(err[w])
                     /\ err'[w].stage = StageLabel(StageAt(wpc[w]))
                     /\ IsError(CallError(LastCall(calls'[w]))) =>
                            /\ err'[w].kind = CallError(LastCall(calls'[w])).kind
                            /\ err'[w].code = CallError(LastCall(calls'[w])).code
              /\ (wpc[w] = "abort" /\ wpc'[w] = "result") =>
                     /\ err'[w] = err[w]
                     /\ IsError(err'[w])
                     /\ LastCall(calls'[w]).op = "DELETE transaction"]_vars

\* The health checks update failed, the abort failed too, and
\* SyncBackends has returned the health checks update's error.
C27_Witness ==
    \E w \in Workers :
        /\ wpc[w] = "result"
        /\ err[w].stage = "updating health checks"
        /\ LastCall(calls[w]).op = "DELETE transaction"
        /\ IsError(CallError(LastCall(calls[w])))

\* ------------------------------------------------------------------ C28

\* The requests that carry a transaction identifier.
TxOps == {"PUT server", "POST server", "PUT backend", "PUT transaction", "DELETE transaction"}

\* C28: transaction identifiers are not reused: each update, commit and
\* abort of a SyncBackends call carries the identifier its own begin
\* returned, a call of SyncBackends begins one transaction, a new one,
\* whose identifier no pass before it was given, and two passes under way
\* never hold the same identifier.
C28_TransactionIdsNotReused ==
    /\ [](\A w \in Workers :
            /\ \A i \in 1..Len(calls[w]) :
                   calls[w][i].op \in TxOps =>
                       /\ txID[w] # EmptyId
                       /\ calls[w][i].tx = txID[w]
                       /\ \E j \in 1..(i - 1) :
                              /\ calls[w][j].op = "POST transactions"
                              /\ calls[w][j].resp.id = txID[w]
            /\ Cardinality(At(w, "POST transactions")) <= 1
            /\ txID[w] # EmptyId => (txID[w] <= remote.begun /\ \A v \in Workers \ {w} : txID[v] # txID[w]))
    /\ [][\A w \in Workers :
              /\ (wpc[w] = "beginPost" /\ txID'[w] # EmptyId) =>
                     /\ txID'[w] > remote.begun
                     /\ txID'[w] = remote'.begun
              /\ txID'[w] # txID[w] => wpc[w] \in {"beginPost", "result"} \/ runPc' = "exited"]_vars

\* A second transaction was begun by a later pass, and the pass has sent
\* its health checks update under the second identifier.
C28_Witness ==
    \E w \in Workers :
        /\ txID[w] = 2
        /\ wpc[w] = "commit"
        /\ LastCall(calls[w]).op = "PUT backend"
        /\ LastCall(calls[w]).tx = 2
        /\ \A v \in Workers \ {w} : txID[v] = EmptyId

\* ------------------------------------------------------------------ C29

ServersOf(r) == [open |-> {[id |-> t.id, servers |-> t.config.servers] : t \in r.open},
                 running |-> r.config.servers]

HoldsKey(w) == wpc[w] \notin {"off", "get", "exited", "killed"}

\* The worker is executing Controller.sync.
InSync(w) == HoldsKey(w) /\ wpc[w] \notin {"result", "done"}

\* C31: at most one pass is in flight. A worker that holds the key holds
\* the one reconcile key, the queue has it as being processed and does not
\* offer it again, so no two workers are inside Controller.sync at once
\* and no two workers hold a transaction at once.
C31_OnePassInFlight ==
    /\ Cardinality({w \in Workers : HoldsKey(w)}) <= 1
    /\ Cardinality({w \in Workers : InSync(w)}) <= 1
    /\ Cardinality({w \in Workers : txID[w] # EmptyId}) <= 1
    /\ \A w \in Workers :
           HoldsKey(w) =>
               /\ item[w] = queueKey
               /\ queueKey \in wq.processing
               /\ queueKey \notin Range(wq.queue)
    /\ \A w \in Workers : txID[w] # EmptyId => HoldsKey(w)

\* One worker is inside a transaction, a notification has asked for the
\* key again meanwhile, and the other worker stands idle at Get.
C31_Witness ==
    \E w \in Workers :
        /\ wpc[w] = "put"
        /\ txID[w] # EmptyId
        /\ TxOpen(remote, txID[w])
        /\ queueKey \in wq.dirty
        /\ ~wq.shuttingDown
        /\ \A v \in Workers \ {w} : wpc[v] = "get"

\* ------------------------------------------------------------------ C32

\* A retry of the key waits for its delay, or has elapsed and waits for
\* the delaying loop.
RetryWaiting(q) == \E e \in q.waiting : e.key = queueKey

\* Nothing is queued, asked for, processed or waiting.
Idle(q) == q.queue = <<>> /\ q.dirty = {} /\ q.processing = {} /\ q.waiting = {}

\* The worker's pass succeeded and no notification came since the key was
\* dequeued: Forget has run, and nobody asked for the key again.
SucceededUnnotified(w) ==
    /\ wpc[w] = "done"
    /\ wq.failures[queueKey] = 0
    /\ queueKey \notin wq.dirty

\* The step is the seed of Run, a notification, or the delaying loop
\* adding a retry whose time has come.
SeedNotificationOrRetry ==
    \/ RunWaitForSync(TRUE)
    \/ \E event \in {"add", "update", "delete"}, obj \in {EndpointsObj, EndpointSliceObj},
          contents \in MirrorContents : Notify(event, obj, contents)
    \/ \E e \in wq.waiting : e.key = queueKey /\ DelayedAdd(e)

\* C32 as stated: after a pass that succeeded with no notification since
\* it was dequeued, no retry is scheduled.
C32_NoRetryAfterSuccess ==
    \A w \in Workers : SucceededUnnotified(w) => ~RetryWaiting(wq)

\* C32: a pass starts only on the key the queue offers; the key is asked
\* for only by the seed, a notification or the retry of a failed pass, and
\* a retry is scheduled only by a failed pass. After a pass succeeded with
\* no notification since it was dequeued and no retry of an earlier failed
\* pass waiting, the queue is idle, and it stays idle until the next
\* notification or the shutdown.
C32_NoSpuriousPass ==
    [][/\ \A w \in Workers :
             (wpc[w] = "get" /\ wpc'[w] = "sync") =>
                 /\ wq.queue = <<queueKey>>
                 /\ queueKey \in wq.dirty
       /\ (queueKey \notin wq.dirty /\ queueKey \in wq'.dirty) => SeedNotificationOrRetry
       /\ (~RetryWaiting(wq) /\ RetryWaiting(wq')) =>
              \E w \in Workers : wpc[w] = "result" /\ IsError(err[w]) /\ wpc'[w] = "done"
       /\ \A w \in Workers :
             (SucceededUnnotified(w) /\ ~RetryWaiting(wq) /\ wpc'[w] = "get") => Idle(wq')
       /\ (Idle(wq) /\ runPc = "running" /\ wq' # wq) =>
              \/ \E event \in {"add", "update", "delete"}, obj \in {EndpointsObj, EndpointSliceObj},
                    contents \in MirrorContents : Notify(event, obj, contents)
              \/ RunCtxDone]_vars

\* A pass committed without a failure before it, and the controller is
\* idle: the queue is empty, nothing waits, every worker stands at Get.
C32_Witness ==
    /\ runPc = "running"
    /\ ~ctxDone
    /\ Idle(wq)
    /\ ~wq.shuttingDown
    /\ wq.failures[queueKey] = 0
    /\ remote.version > 1
    /\ faults = 0
    /\ \A w \in Workers : wpc[w] = "get"

\* ------------------------------------------------------------------ C33

\* The requests BeginTransaction makes.
BeginOps == {"GET version", "POST transactions"}

\* The call is one of begin's and makes BeginTransaction fail: the version
\* could not be fetched, the create request failed, or its answer has no id.
FailsBegin(c) ==
    \/ c.op = "GET version" /\ IsError(fetchConfigurationVersion(c.resp))
    \/ c.op = "POST transactions" /\ (IsError(doRequest(c.resp)) \/ c.resp.id = EmptyId)

\* C33: when begin fails, SyncBackends returns at once with begin's error:
\* the failing call of begin is the last call of the pass, no server
\* update, health check update, commit or abort is in the pass's record,
\* and the worker holds no transaction.
C33_FailedBeginEndsPass ==
    [][\A w \in Workers :
        /\ (wpc[w] = "result" /\ err[w].stage = "beginning transaction" /\ wpc'[w] # "result") =>
              /\ wpc'[w] \in {"done", "killed"}
              /\ remote' = remote
              /\ \A i \in 1..Len(calls[w]) : calls[w][i].op \in BeginOps
        /\
          (wpc[w] \in {"fetchVersion", "beginPost"} /\ wpc'[w] \notin {wpc[w], "killed"}) =>
              \A c \in {LastCall(calls'[w])} :
                  /\ c.op = (IF wpc[w] = "fetchVersion" THEN "GET version" ELSE "POST transactions")
                  /\ FailsBegin(c) <=> wpc'[w] = "result"
                  /\ FailsBegin(c) =>
                         /\ IsError(err'[w])
                         /\ err'[w].stage = "beginning transaction"
                         /\ err'[w].op = (IF c.op = "GET version" THEN "fetch version"
                                          ELSE "begin transaction")
                         /\ txID'[w] = EmptyId
                         /\ \A i \in 1..Len(calls'[w]) : calls'[w][i].op \in BeginOps
                         /\ Len(calls'[w]) = (IF c.op = "GET version" THEN 1 ELSE 2)]_vars

\* The version could not be fetched: SyncBackends has returned begin's
\* error after that one request.
C33_Witness ==
    \E w \in Workers :
        /\ wpc[w] = "result"
        /\ Len(calls[w]) = 1
        /\ calls[w][1].op = "GET version"
        /\ FailsBegin(calls[w][1])
        /\ err[w].stage = "beginning transaction"
        /\ err[w].op = "fetch version"
        /\ txID[w] = EmptyId

====
